---- MODULE Spec2Model ----
(***************************************************************************)
(* A model of the coordination layer of studious-robot: the conversation  *)
(* history (llm_client.MessageHistory) with its transaction stack and its *)
(* per-agent projection, the message bus (agent_base.MessageBus), and the  *)
(* agent threads of conv_agent.py in the router and the relay topology.    *)
(*                                                                         *)
(* Python strings are modelled as sequences of one-character strings, so   *)
(* that concatenation, str.upper and str.startswith are computed.          *)
(* Message objects live in a heap and lists hold references to them, so    *)
(* that list.copy() is the shallow copy it is in Python.                   *)
(***************************************************************************)
EXTENDS Integers, Sequences, FiniteSets, TLC

(***************************************************************************)
(* Bounds of the model.                                                    *)
(***************************************************************************)
\* longest live history SpecTxn builds
MaxLen == 3
\* longest live history SpecHistory builds
MaxHistLen == 2
\* longest live sequence SpecRead builds
MaxReadLen == 2
\* deepest snapshot stack SpecTxn and SpecHistory build
MaxDepth == 2
\* longest transcript the projection specification draws
MaxViewLen == 5
\* most messages SpecBus puts into the Queue objects that exist at one time
MaxPut == 2
\* longest transcript the router topology builds
MaxTranscript == 11
\* longest transcript the relay topology builds
MaxRelayTranscript == 11
\* most state functions the loop of one agent of multi_agent.py calls
MaxSteps == 8
\* most polls of an empty mailbox the agents of multi_agent.py begin
MaxIdle == 1
\* most transitions registered in one StateMachine of mb2.py
MaxTransitions == 10
\* longest transcript LLMClient.invoke is called on
MaxInvokeLen == 3
\* most argument expressions of a tool call in a message
MaxArgs == 3
\* longest transcript whose errors are compared
MaxErrorLen == 4
\* most messages waiting in the mailbox of an agent whose loop has ended
MaxPost == 1
\* the timeout, in seconds, the agents pass to receive_message
PollTimeout == 1

(***************************************************************************)
(* Strings.                                                                *)
(***************************************************************************)
EmptyStr == <<>>
SYSTEM == <<"s", "y", "s", "t", "e", "m">>
USER == <<"u", "s", "e", "r">>
ASSISTANT == <<"a", "s", "s", "i", "s", "t", "a", "n", "t">>
SYSTEM_ == <<"s", "y", "s", "t", "e", "m", "_">>
ColonSpace == <<":", " ">>
NL == <<"\n">>
AgentA == <<"a", "g", "e", "n", "t", "A">>
AgentB == <<"a", "g", "e", "n", "t", "B">>

LowerChars == <<"a", "b", "c", "d", "e", "f", "g", "h", "i", "j", "k", "l", "m",
                "n", "o", "p", "q", "r", "s", "t", "u", "v", "w", "x", "y", "z">>
UpperChars == <<"A", "B", "C", "D", "E", "F", "G", "H", "I", "J", "K", "L", "M",
                "N", "O", "P", "Q", "R", "S", "T", "U", "V", "W", "X", "Y", "Z">>

\* str.upper(), character by character
UpperOf ==
    [c \in {LowerChars[k] : k \in 1..Len(LowerChars)} |->
        UpperChars[CHOOSE k \in 1..Len(LowerChars) : LowerChars[k] = c]]

Upper(s) == [i \in 1..Len(s) |-> IF s[i] \in DOMAIN UpperOf THEN UpperOf[s[i]] ELSE s[i]]

\* str.startswith(prefix)
StartsWith(s, prefix) ==
    /\ Len(s) >= Len(prefix)
    /\ SubSeq(s, 1, Len(prefix)) = prefix

\* Message(role, content)
Message(role, content) == [role |-> role, content |-> content]

(***************************************************************************)
(* State.                                                                  *)
(***************************************************************************)
VARIABLES
    heap,           \* the Message objects: object id -> [role, content]
    history,        \* MessageHistory.history: a list of references
    history_stack,  \* MessageHistory.history_stack: a list of lists of references
    saved,          \* per open transaction, the roles and contents the live
                    \* sequence had when start_transaction() was called
    op,             \* the last call: its name, what it raised, the stack depth it found
    view_out        \* what the last call returned: for view()/to_api_format() the
                    \* agent, renamed_history and the list; for last()/last_role()
                    \* the string

VARIABLES
    agent_queues,   \* MessageBus.agent_queues: agent name -> its Queue object
    queues,         \* the Queue objects: object id -> the items queued, and
                    \* everything ever put into and got out of the object
    agents,         \* MessageBus.agents: agent name -> the agent object
    resources,      \* MessageBus.resources: resource name -> value
    lock,           \* MessageBus.lock: the thread that holds the mutex, if any
    receivers,      \* per thread inside receive_message, after the lock is
                    \* released: the Queue object it waits on and its timeout
    bus_op          \* the last call on the bus: its name, whether it waits or
                    \* has returned, its argument, what it returned and logged

VARIABLES
    threads,        \* the ThreadedAgent objects: name -> class, sm.state,
                    \* past_state, running, the position of the thread inside
                    \* its state function, and the fields of the subclasses
    step            \* the state function the run loops called last, and whose

VARIABLES
    run_log,        \* per agent, what run has logged: the "Entered state"
                    \* reports and the errors it caught
    executed,       \* per agent, the state functions run has called so far
    main_pc,        \* the position of the main thread of multi_agent.py
    stopped         \* per agent whose stop() has returned: how many state
                    \* functions its loop had called by then

VARIABLES
    sm,             \* the StateMachine object of mb2.py: state and transitions
    table_op        \* the last call on it, what its guards answered and the
                    \* guards it called, in order

VARIABLES
    tool_message,   \* the message given to extract_and_run_tools of llm_tools.py
    tool_out        \* what the call returned, or the exception it raised

histVars == <<heap, history, history_stack, saved, op, view_out>>
busVars == <<agent_queues, queues, agents, resources, lock, receivers, bus_op>>
agentVars == <<threads, step>>
toolVars == <<tool_message, tool_out>>
tableVars == <<sm, table_op, toolVars>>
loopVars == <<run_log, executed, main_pc, stopped, tableVars>>
vars == <<histVars, busVars, agentVars, loopVars>>

Range(s) == {s[i] : i \in 1..Len(s)}

\* the roles and contents a list of references denotes in a heap
Deref(hp, refs) == [i \in 1..Len(refs) |-> hp[refs[i]]]

LiveValues == Deref(heap, history)

\* the objects the live list and the snapshots refer to, live list first, each
\* once, in the order of their first occurrence
RECURSIVE Flatten(_, _)
Flatten(h, st) ==
    IF st = <<>> THEN h
    ELSE Flatten(h \o st[Len(st)], SubSeq(st, 1, Len(st) - 1))

\* (the values are bound by \in so that each is computed once)
RECURSIVE Distinct(_, _)
Distinct(done, rest) ==
    IF rest = <<>> THEN done
    ELSE Distinct(CHOOSE r \in {IF x \in Range(d) THEN d ELSE Append(d, x) :
                                    d \in {done}, x \in {rest[1]}} : TRUE,
                  Tail(rest))

Referenced(h, st) == Distinct(<<>>, Flatten(h, st))

\* a fresh object id
NewId(hp) == Len(hp) + 1

\* Object ids are not observable: unreferenced objects are reclaimed and the
\* remaining ones are numbered in the order of Referenced.
Rank(refd, o) == CHOOSE k \in 1..Len(refd) : refd[k] = o

Renumber(refd, refs) == [i \in 1..Len(refs) |-> Rank(refd, refs[i])]

Store(hp, h, st) ==
    \E refd \in {Referenced(h, st)} :
       /\ heap' = [k \in 1..Len(refd) |-> hp[refd[k]]]
       /\ history' = Renumber(refd, h)
       /\ history_stack' = [k \in 1..Len(st) |-> Renumber(refd, st[k])]

NoView == [agent |-> EmptyStr, renamed |-> <<>>, value |-> <<>>]

Call(name, exc, msg) ==
    [name |-> name, exc |-> exc, msg |-> msg, depth |-> Len(history_stack)]

Ok(name) == Call(name, "none", "")

Raise(name, msg) == Call(name, "ValueError", msg)

(***************************************************************************)
(* MessageBus: registration, mailboxes and resources.                      *)
(***************************************************************************)
\* a value or None: None is the empty option
None_ == <<>>
Some(x) == <<x>>

\* queue.Queue(): no items; nothing was ever put into it or got out of it
NewQueue == [items |-> <<>>, put |-> <<>>, got |-> <<>>]

\* a put that inserts at the head of the queue
Put_AtHead(queue, item) ==
    [queue EXCEPT !.items = <<item>> \o @, !.put = Append(@, item)]

\* Queue.put
Put(queue, item) ==
    [queue EXCEPT !.items = Append(@, item), !.put = Append(@, item)]

\* Queue.get on a queue that holds an item
Get(queue) ==
    [queue EXCEPT !.items = Tail(@), !.got = Append(@, Head(queue.items))]

\* an object id no Queue object has
NewQueueId == CHOOSE q \in 1..(Cardinality(DOMAIN queues) + 1) : q \notin DOMAIN queues

\* the thread is not inside receive_message
NotReceiving == <<>>

\* the Queue objects that the bus or a waiting thread still refers to
Reachable(aq, rc) ==
    {aq[n] : n \in DOMAIN aq} \cup {rc[t][1].q : t \in {u \in DOMAIN rc : rc[u] # NotReceiving}}

Collect(qs, aq, rc) == [q \in (DOMAIN qs \cap Reachable(aq, rc)) |-> qs[q]]

Without(f, x) == [y \in (DOMAIN f \ {x}) |-> f[y]]

NoLog == ""

BusCall(name, phase, arg, ret, log) ==
    [name |-> name, phase |-> phase, arg |-> arg, ret |-> ret, log |-> log]

\* MessageBus.__init__
InitBus ==
    /\ agent_queues = <<>>
    /\ queues = <<>>
    /\ agents = <<>>
    /\ resources = <<>>
    /\ lock = None_

\* the threads that call the bus, none of them inside a call
InitCallers(callers) ==
    /\ receivers = [t \in callers |-> NotReceiving]
    /\ bus_op = BusCall("init", "return", EmptyStr, None_, NoLog)

NoStep == [agent |-> EmptyStr, state |-> ""]

\* nothing of the loops and of the main thread of multi_agent.py is recorded
NoLoop ==
    /\ run_log = <<>>
    /\ executed = <<>>
    /\ main_pc = ""
    /\ stopped = <<>>

\* no StateMachine of mb2.py was constructed
NoTable ==
    /\ sm = <<>>
    /\ table_op = <<>>

\* extract_and_run_tools was not called
NoTools ==
    /\ tool_message = <<>>
    /\ tool_out = <<>>

\* no ThreadedAgent was constructed
NoAgents ==
    /\ threads = <<>>
    /\ step = NoStep
    /\ NoLoop
    /\ NoTable
    /\ NoTools

\* with self.lock: the calling thread acquires the mutex when no thread holds
\* it and has released it when the block ends
WithLock(t) ==
    /\ receivers[t] = NotReceiving
    /\ lock = None_
    /\ lock' = None_

\* a receive that keeps the mutex while it waits on the Queue object
ReceiveLookup_WaitLocked(t, agent_name, timeout) ==
    /\ receivers[t] = NotReceiving
    /\ lock = None_
    /\ IF agent_name \in DOMAIN agent_queues
       THEN /\ receivers' = [receivers EXCEPT ![t] =
                    Some([q |-> agent_queues[agent_name], arg |-> agent_name, timeout |-> timeout])]
            /\ lock' = Some(t)
            /\ bus_op' = BusCall("receive_message", "wait", agent_name, None_, NoLog)
       ELSE /\ UNCHANGED receivers
            /\ lock' = None_
            /\ bus_op' = BusCall("receive_message", "return", agent_name, None_, "WARNING")
    /\ UNCHANGED <<agent_queues, queues, agents, resources>>

\* a registration that replaces the mailbox and the handle of a registered name
RegisterAgent_Overwrite(t, agent_name, agent) ==
    /\ WithLock(t)
    /\ LET q == NewQueueId
           aq == (agent_name :> q) @@ agent_queues
       IN /\ agent_queues' = aq
          /\ queues' = Collect((q :> NewQueue) @@ queues, aq, receivers)
          /\ agents' = (agent_name :> agent) @@ agents
    /\ bus_op' = BusCall("register_agent", "return", agent_name, None_, NoLog)
    /\ UNCHANGED <<resources, receivers>>

\* MessageBus.register_agent
RegisterAgent(t, agent_name, agent) ==
    /\ WithLock(t)
    /\ IF agent_name \notin DOMAIN agent_queues
       THEN LET q == NewQueueId
            IN /\ agent_queues' = (agent_name :> q) @@ agent_queues
               /\ queues' = (q :> NewQueue) @@ queues
               /\ agents' = (agent_name :> agent) @@ agents
       ELSE UNCHANGED <<agent_queues, queues, agents>>
    /\ bus_op' = BusCall("register_agent", "return", agent_name, None_, NoLog)
    /\ UNCHANGED <<resources, receivers>>

\* an unregistration that deletes the mailbox and keeps the handle
UnregisterAgent_KeepHandle(t, agent_name) ==
    /\ WithLock(t)
    /\ IF agent_name \in DOMAIN agent_queues
       THEN /\ agent_queues' = Without(agent_queues, agent_name)
            /\ queues' = Collect(queues, Without(agent_queues, agent_name), receivers)
            /\ UNCHANGED agents
       ELSE UNCHANGED <<agent_queues, queues, agents>>
    /\ bus_op' = BusCall("unregister_agent", "return", agent_name, None_, NoLog)
    /\ UNCHANGED <<resources, receivers>>

\* MessageBus.unregister_agent
UnregisterAgent(t, agent_name) ==
    /\ WithLock(t)
    /\ IF agent_name \in DOMAIN agent_queues
       THEN /\ agent_queues' = Without(agent_queues, agent_name)
            /\ queues' = Collect(queues, Without(agent_queues, agent_name), receivers)
            /\ agents' = Without(agents, agent_name)
       ELSE UNCHANGED <<agent_queues, queues, agents>>
    /\ bus_op' = BusCall("unregister_agent", "return", agent_name, None_, NoLog)
    /\ UNCHANGED <<resources, receivers>>

\* a send that reaches the threads that wait for a name that has no mailbox
SendMessage_ReachesWaiting(t, to_agent, message) ==
    /\ WithLock(t)
    /\ queues' = [q \in DOMAIN queues |->
                    IF \/ to_agent \in DOMAIN agent_queues /\ agent_queues[to_agent] = q
                       \/ /\ to_agent \notin DOMAIN agent_queues
                          /\ \E u \in DOMAIN receivers :
                                /\ receivers[u] # NotReceiving
                                /\ receivers[u][1].q = q
                                /\ receivers[u][1].arg = to_agent
                    THEN Put(queues[q], message) ELSE queues[q]]
    /\ bus_op' = BusCall("send_message", "return", to_agent, None_, NoLog)
    /\ UNCHANGED <<agent_queues, agents, resources, receivers>>

\* a send that opens a mailbox for a name that has none
SendMessage_CreateMailbox(t, to_agent, message) ==
    /\ WithLock(t)
    /\ IF to_agent \in DOMAIN agent_queues
       THEN /\ queues' = [queues EXCEPT ![agent_queues[to_agent]] = Put(@, message)]
            /\ UNCHANGED agent_queues
       ELSE LET q == NewQueueId
            IN /\ agent_queues' = (to_agent :> q) @@ agent_queues
               /\ queues' = (q :> Put(NewQueue, message)) @@ queues
    /\ bus_op' = BusCall("send_message", "return", to_agent, None_, NoLog)
    /\ UNCHANGED <<agents, resources, receivers>>

\* MessageBus.send_message
SendMessage(t, to_agent, message) ==
    /\ WithLock(t)
    /\ IF to_agent \in DOMAIN agent_queues
       THEN queues' = [queues EXCEPT ![agent_queues[to_agent]] = Put(@, message)]
       ELSE UNCHANGED queues
    /\ bus_op' = BusCall("send_message", "return", to_agent, None_, NoLog)
    /\ UNCHANGED <<agent_queues, agents, resources, receivers>>

\* a lookup that says nothing about an unknown name
ReceiveLookup_Silent(t, agent_name, timeout) ==
    /\ WithLock(t)
    /\ IF agent_name \in DOMAIN agent_queues
       THEN /\ receivers' = [receivers EXCEPT ![t] =
                    Some([q |-> agent_queues[agent_name], arg |-> agent_name, timeout |-> timeout])]
            /\ bus_op' = BusCall("receive_message", "wait", agent_name, None_, NoLog)
       ELSE /\ UNCHANGED receivers
            /\ bus_op' = BusCall("receive_message", "return", agent_name, None_, NoLog)
    /\ UNCHANGED <<agent_queues, queues, agents, resources>>

\* MessageBus.receive_message, the part under the lock: the mailbox of the
\* name is looked up; an unknown name is logged and None is returned at once
ReceiveLookup(t, agent_name, timeout) ==
    /\ WithLock(t)
    /\ IF agent_name \in DOMAIN agent_queues
       THEN /\ receivers' = [receivers EXCEPT ![t] =
                    Some([q |-> agent_queues[agent_name], arg |-> agent_name, timeout |-> timeout])]
            /\ bus_op' = BusCall("receive_message", "wait", agent_name, None_, NoLog)
       ELSE /\ UNCHANGED receivers
            /\ bus_op' = BusCall("receive_message", "return", agent_name, None_, "WARNING")
    /\ UNCHANGED <<agent_queues, queues, agents, resources>>

\* MessageBus.receive_message, after the lock is released: agent_queue.get
\* returns the oldest item of the Queue object that was looked up
ReceiveGet(t) ==
    /\ receivers[t] # NotReceiving
    /\ UNCHANGED lock
    /\ LET r == receivers[t][1]
           rc == [receivers EXCEPT ![t] = NotReceiving]
       IN /\ queues[r.q].items # <<>>
          /\ receivers' = rc
          /\ queues' = Collect([queues EXCEPT ![r.q] = Get(@)], agent_queues, rc)
          /\ bus_op' = BusCall("receive_message", "return", r.arg,
                               Some(Head(queues[r.q].items)), NoLog)
    /\ UNCHANGED <<agent_queues, agents, resources>>

\* MessageBus.receive_message, after the lock is released: the timeout
\* elapses on an empty Queue object, queue.Empty is caught, None is returned
ReceiveTimeout(t) ==
    /\ receivers[t] # NotReceiving
    /\ UNCHANGED lock
    /\ LET r == receivers[t][1]
           rc == [receivers EXCEPT ![t] = NotReceiving]
       IN /\ r.timeout # None_
          /\ queues[r.q].items = <<>>
          /\ receivers' = rc
          /\ queues' = Collect(queues, agent_queues, rc)
          /\ bus_op' = BusCall("receive_message", "return", r.arg, None_, NoLog)
    /\ UNCHANGED <<agent_queues, agents, resources>>

\* MessageBus.add_resource
AddResource(t, resource_name, value) ==
    /\ WithLock(t)
    /\ resources' = (resource_name :> value) @@ resources
    /\ bus_op' = BusCall("add_resource", "return", resource_name, None_, NoLog)
    /\ UNCHANGED <<agent_queues, queues, agents, receivers>>

\* MessageBus.get_resource
GetResource(t, resource_name) ==
    /\ WithLock(t)
    /\ bus_op' = BusCall("get_resource", "return", resource_name,
                         IF resource_name \in DOMAIN resources
                         THEN Some(resources[resource_name]) ELSE None_,
                         NoLog)
    /\ UNCHANGED <<agent_queues, queues, agents, resources, receivers>>

(***************************************************************************)
(* MessageHistory: mutation and transactions.                              *)
(***************************************************************************)
\* the arguments SpecTxn passes to add
AddRoles == {SYSTEM, USER}
AddContents == {<<"x">>, <<"y">>}
\* the arguments SpecHistory passes to add and to set_last_role: a generated
\* reply and the name it is stamped with
ReplyRoles == {ASSISTANT}
ReplyContents == {<<"x">>}
StampRoles == {AgentA}
\* the names SpecRead passes to set_last_role
RestampRoles == {AgentA, AgentB}

\* MessageHistory.add
Add(role, content) ==
    /\ LET o == NewId(heap)
       IN Store(Append(heap, Message(role, content)), Append(history, o), history_stack)
    /\ op' = Ok("add")
    /\ UNCHANGED saved
    /\ view_out' = NoView

\* MessageHistory.start_transaction
StartTransaction ==
    /\ Store(heap, history, Append(history_stack, history))
    /\ saved' = Append(saved, LiveValues)
    /\ op' = Ok("start_transaction")
    /\ view_out' = NoView

\* a rollback that restores and pops the oldest snapshot instead of the newest
Rollback_PopOldest ==
    IF history_stack = <<>>
    THEN /\ op' = Raise("rollback", "No transaction to rollback.")
         /\ UNCHANGED <<heap, history, history_stack, saved>>
         /\ view_out' = NoView
    ELSE /\ Store(heap, history_stack[1], Tail(history_stack))
         /\ saved' = SubSeq(saved, 1, Len(saved) - 1)
         /\ op' = Ok("rollback")
         /\ view_out' = NoView

\* a rollback that reports a missing transaction as view reports an empty
\* history
Rollback_SameError ==
    IF history_stack = <<>>
    THEN /\ op' = Raise("rollback", "Message history is empty.")
         /\ UNCHANGED <<heap, history, history_stack, saved>>
         /\ view_out' = NoView
    ELSE /\ Store(heap, history_stack[Len(history_stack)],
                  SubSeq(history_stack, 1, Len(history_stack) - 1))
         /\ saved' = SubSeq(saved, 1, Len(saved) - 1)
         /\ op' = Ok("rollback")
         /\ view_out' = NoView

\* MessageHistory.rollback
Rollback ==
    IF history_stack = <<>>
    THEN /\ op' = Raise("rollback", "No transaction to rollback.")
         /\ UNCHANGED <<heap, history, history_stack, saved>>
         /\ view_out' = NoView
    ELSE /\ Store(heap, history_stack[Len(history_stack)],
                  SubSeq(history_stack, 1, Len(history_stack) - 1))
         /\ saved' = SubSeq(saved, 1, Len(saved) - 1)
         /\ op' = Ok("rollback")
         /\ view_out' = NoView

\* a commit that closes the innermost transaction only
Commit_InnermostOnly ==
    IF history_stack = <<>>
    THEN /\ op' = Raise("commit", "No transaction to commit.")
         /\ UNCHANGED <<heap, history, history_stack, saved>>
         /\ view_out' = NoView
    ELSE /\ Store(heap, history, SubSeq(history_stack, 1, Len(history_stack) - 1))
         /\ saved' = SubSeq(saved, 1, Len(saved) - 1)
         /\ op' = Ok("commit")
         /\ view_out' = NoView

\* a commit without the check for an open transaction
Commit_NoGuard ==
    /\ Store(heap, history, <<>>)
    /\ saved' = <<>>
    /\ op' = Ok("commit")
    /\ view_out' = NoView

\* MessageHistory.commit
Commit ==
    IF history_stack = <<>>
    THEN /\ op' = Raise("commit", "No transaction to commit.")
         /\ UNCHANGED <<heap, history, history_stack, saved>>
         /\ view_out' = NoView
    ELSE /\ Store(heap, history, <<>>)
         /\ saved' = <<>>
         /\ op' = Ok("commit")
         /\ view_out' = NoView

\* a clear_all_but_system that drops the open transactions with the messages
ClearAllButSystem_DropsSnapshots ==
    /\ IF Len(history) > 1
       THEN Store(heap, <<history[1]>>, <<>>)
       ELSE UNCHANGED <<heap, history, history_stack>>
    /\ op' = Ok("clear_all_but_system")
    /\ UNCHANGED saved
    /\ view_out' = NoView

\* MessageHistory.clear_all_but_system
ClearAllButSystem ==
    /\ IF Len(history) > 1
       THEN Store(heap, <<history[1]>>, history_stack)
       ELSE UNCHANGED <<heap, history, history_stack>>
    /\ op' = Ok("clear_all_but_system")
    /\ UNCHANGED saved
    /\ view_out' = NoView

\* MessageHistory.set_last_role
SetLastRole(role) ==
    IF history = <<>>
    THEN /\ op' = Raise("set_last_role", "Message history is empty.")
         /\ UNCHANGED <<heap, history, history_stack, saved>>
         /\ view_out' = NoView
    ELSE /\ Store([heap EXCEPT ![history[Len(history)]].role = role],
                  history, history_stack)
         /\ op' = Ok("set_last_role")
         /\ UNCHANGED saved
         /\ view_out' = NoView

\* MessageHistory.last: the content of the last message
Last ==
    IF history = <<>>
    THEN /\ op' = Raise("last", "Message history is empty.")
         /\ view_out' = NoView
         /\ UNCHANGED <<heap, history, history_stack, saved>>
    ELSE /\ op' = Ok("last")
         /\ view_out' = [NoView EXCEPT !.value = heap[history[Len(history)]].content]
         /\ UNCHANGED <<heap, history, history_stack, saved>>

\* a last_role that answers "" for an empty history instead of raising
LastRole_NoGuard ==
    /\ op' = Ok("last_role")
    /\ view_out' = [NoView EXCEPT !.value =
                        IF history = <<>> THEN EmptyStr
                        ELSE heap[history[Len(history)]].role]
    /\ UNCHANGED <<heap, history, history_stack, saved>>

\* MessageHistory.last_role: the role of the last message
LastRole ==
    IF history = <<>>
    THEN /\ op' = Raise("last_role", "Message history is empty.")
         /\ view_out' = NoView
         /\ UNCHANGED <<heap, history, history_stack, saved>>
    ELSE /\ op' = Ok("last_role")
         /\ view_out' = [NoView EXCEPT !.value = heap[history[Len(history)]].role]
         /\ UNCHANGED <<heap, history, history_stack, saved>>

\* MessageHistory.__init__
InitHistory ==
    /\ heap = <<>>
    /\ history = <<>>
    /\ history_stack = <<>>
    /\ saved = <<>>
    /\ op = [name |-> "init", exc |-> "none", msg |-> "", depth |-> 0]
    /\ view_out = NoView

\* add, start_transaction and rollback only
NextTxn ==
    \/ /\ Len(history) < MaxLen
       /\ \E role \in AddRoles, content \in AddContents : Add(role, content)
       /\ UNCHANGED <<busVars, agentVars, loopVars>>
    \/ /\ Len(history_stack) < MaxDepth
       /\ StartTransaction
       /\ UNCHANGED <<busVars, agentVars, loopVars>>
    \/ /\ Rollback
       /\ UNCHANGED <<busVars, agentVars, loopVars>>

\* a MessageHistory on its own: an empty bus and no agent
InitAlone == InitHistory /\ InitBus /\ InitCallers({}) /\ NoAgents

SpecTxn == InitAlone /\ [][NextTxn]_vars

(***************************************************************************)
(* MessageHistory.view / to_api_format: the per-agent projection.          *)
(***************************************************************************)
\* view(agent) takes the no-agent path for None and for "" alike
NoAgent == EmptyStr

\* a renaming that keeps the other agents' preambles as system entries
RenameOne_KeepPreambles(message, agent) ==
    IF message.role = agent
    THEN <<Message(ASSISTANT, message.content)>>
    ELSE IF message.role = SYSTEM \/ StartsWith(message.role, SYSTEM_)
    THEN <<Message(SYSTEM, message.content)>>
    ELSE <<Message(USER, Upper(message.role) \o ColonSpace \o message.content)>>

\* a renaming that leaves the content of the other participants' entries as it is
RenameOne_NoPrefix(message, agent) ==
    IF message.role = agent
    THEN <<Message(ASSISTANT, message.content)>>
    ELSE IF message.role = SYSTEM \/ message.role = SYSTEM_ \o agent
    THEN <<Message(SYSTEM, message.content)>>
    ELSE IF ~StartsWith(message.role, SYSTEM_)
    THEN <<Message(USER, message.content)>>
    ELSE <<>>

\* the body of the renaming loop, for one message of the transcript
RenameOne(message, agent) ==
    IF message.role = agent
    THEN <<Message(ASSISTANT, message.content)>>
    ELSE IF message.role = SYSTEM \/ message.role = SYSTEM_ \o agent
    THEN <<Message(SYSTEM, message.content)>>
    ELSE IF ~StartsWith(message.role, SYSTEM_)
    THEN <<Message(USER, Upper(message.role) \o ColonSpace \o message.content)>>
    ELSE <<>>

\* the renaming loop: renamed_history
RECURSIVE Rename(_, _)
Rename(messages, agent) ==
    IF messages = <<>> THEN <<>>
    ELSE RenameOne(Head(messages), agent) \o Rename(Tail(messages), agent)

\* a merging loop body that never joins: every message starts a new entry
MergeOne_NoMerge(acc, message, agent) ==
    IF acc.msg # ""
    THEN acc
    ELSE IF agent = NoAgent /\ message.role \notin {SYSTEM, USER, ASSISTANT}
    THEN [acc EXCEPT !.msg = "Invalid role in message. Pass in agent to merge messages."]
    ELSE [acc EXCEPT
            !.new_history = IF acc.current.role # EmptyStr
                            THEN Append(@, acc.current) ELSE @,
            !.current = message]

\* a merging loop body that joins a run's contents newest first
MergeOne_Reversed(acc, message, agent) ==
    IF acc.msg # ""
    THEN acc
    ELSE IF agent = NoAgent /\ message.role \notin {SYSTEM, USER, ASSISTANT}
    THEN [acc EXCEPT !.msg = "Invalid role in message. Pass in agent to merge messages."]
    ELSE IF message.role = acc.current.role
    THEN [acc EXCEPT !.current.content = message.content \o NL \o @]
    ELSE [acc EXCEPT
            !.new_history = IF acc.current.role # EmptyStr
                            THEN Append(@, acc.current) ELSE @,
            !.current = message]

\* the body of the merging loop, for one message of renamed_history;
\* acc holds new_history, current_new_message and the error raised so far
MergeOne(acc, message, agent) ==
    IF acc.msg # ""
    THEN acc
    ELSE IF agent = NoAgent /\ message.role \notin {SYSTEM, USER, ASSISTANT}
    THEN [acc EXCEPT !.msg = "Invalid role in message. Pass in agent to merge messages."]
    ELSE IF message.role = acc.current.role
    THEN [acc EXCEPT !.current.content = @ \o NL \o message.content]
    ELSE [acc EXCEPT
            !.new_history = IF acc.current.role # EmptyStr
                            THEN Append(@, acc.current) ELSE @,
            !.current = message]

\* the merging loop, then new_history.append(current_new_message)
RECURSIVE MergeLoop(_, _, _)
MergeLoop(acc, renamed, agent) ==
    IF renamed = <<>>
    THEN IF acc.msg # "" THEN acc
         ELSE [acc EXCEPT !.new_history = Append(@, acc.current)]
    ELSE CHOOSE r \in {MergeLoop(MergeOne(a, Head(renamed), agent), Tail(renamed), agent) :
                            a \in {acc}} : TRUE

Merge(renamed, agent) ==
    MergeLoop([new_history |-> <<>>, current |-> Message(EmptyStr, EmptyStr), msg |-> ""],
              renamed, agent)

\* the ordering loop over range(1, len(new_history) - 1): the message of the
\* first position that breaks the alternation, "" if none does.  Python's
\* index i is position i + 1 here.
RECURSIVE Ordering(_, _)
Ordering(new_history, i) ==
    IF i >= Len(new_history) - 1 THEN ""
    ELSE IF i % 2 = 1 /\ new_history[i + 1].role # USER
    THEN "Incorrect ordering: User message expected."
    ELSE IF i % 2 = 0 /\ new_history[i + 1].role # ASSISTANT
    THEN "Incorrect ordering: Assistant message expected."
    ELSE Ordering(new_history, i + 1)

\* checks after the merge that leave out the one on the last entry
Validate_NoLastCheck(new_history) ==
    IF new_history[1].role # SYSTEM
    THEN "First message must be a system message."
    ELSE Ordering(new_history, 1)

\* the checks after the merge: the message of the ValueError raised, "" if none
Validate(new_history) ==
    IF new_history[1].role # SYSTEM
    THEN "First message must be a system message."
    ELSE IF new_history[Len(new_history)].role # USER
    THEN "Last message must be a user message."
    ELSE Ordering(new_history, 1)

\* a projection that runs the renaming loop even when no agent is given
ViewOf_AlwaysRename(messages, agent) ==
    IF messages = <<>>
    THEN [msg |-> "Message history is empty.", renamed |-> <<>>, value |-> <<>>]
    ELSE LET renamed == Rename(messages, agent)
             merged == Merge(renamed, agent)
             msg == IF merged.msg # "" THEN merged.msg ELSE Validate(merged.new_history)
         IN [msg |-> msg,
             renamed |-> renamed,
             value |-> IF msg = "" THEN merged.new_history ELSE <<>>]

\* view(agent) on the roles and contents of the live sequence: the error
\* raised ("" if none), renamed_history and the list returned
ViewOf(messages, agent) ==
    IF messages = <<>>
    THEN [msg |-> "Message history is empty.", renamed |-> <<>>, value |-> <<>>]
    ELSE LET renamed == IF agent # NoAgent THEN Rename(messages, agent) ELSE messages
             Checked(merged) ==
                LET msg == IF merged.msg # "" THEN merged.msg ELSE Validate(merged.new_history)
                IN [msg |-> msg,
                    renamed |-> renamed,
                    value |-> IF msg = "" THEN merged.new_history ELSE <<>>]
         IN CHOOSE r \in {Checked(merged) : merged \in {Merge(renamed, agent)}} : TRUE

\* MessageHistory.view and MessageHistory.to_api_format, whose dictionaries
\* carry the same role and content
View(agent) ==
    LET r == ViewOf(LiveValues, agent)
    IN /\ op' = Call("view", IF r.msg = "" THEN "none" ELSE "ValueError", r.msg)
       /\ view_out' = [agent |-> agent, renamed |-> r.renamed, value |-> r.value]
       /\ UNCHANGED <<heap, history, history_stack, saved>>

\* every mutation and transaction operation
NextHistory ==
    \/ /\ Len(history) < MaxHistLen
       /\ \E role \in ReplyRoles, content \in ReplyContents : Add(role, content)
       /\ UNCHANGED <<busVars, agentVars, loopVars>>
    \/ /\ Len(history_stack) < MaxDepth
       /\ StartTransaction
       /\ UNCHANGED <<busVars, agentVars, loopVars>>
    \/ /\ Rollback
       /\ UNCHANGED <<busVars, agentVars, loopVars>>
    \/ /\ Commit
       /\ UNCHANGED <<busVars, agentVars, loopVars>>
    \/ /\ ClearAllButSystem
       /\ UNCHANGED <<busVars, agentVars, loopVars>>
    \/ /\ \E role \in StampRoles : SetLastRole(role)
       /\ UNCHANGED <<busVars, agentVars, loopVars>>

SpecHistory == InitAlone /\ [][NextHistory]_vars

\* the agents SpecRead projects for
ReadAgents == {NoAgent, AgentA}

\* the reads of a history that transactions empty and fill: last, last_role,
\* set_last_role and view between add, start_transaction and rollback
NextRead ==
    \/ /\ Len(history) < MaxReadLen
       /\ \E role \in ReplyRoles, content \in ReplyContents : Add(role, content)
       /\ UNCHANGED <<busVars, agentVars, loopVars>>
    \/ /\ Len(history_stack) < MaxDepth
       /\ StartTransaction
       /\ UNCHANGED <<busVars, agentVars, loopVars>>
    \/ /\ Rollback
       /\ UNCHANGED <<busVars, agentVars, loopVars>>
    \/ /\ \E role \in RestampRoles : SetLastRole(role)
       /\ UNCHANGED <<busVars, agentVars, loopVars>>
    \/ /\ Last
       /\ UNCHANGED <<busVars, agentVars, loopVars>>
    \/ /\ LastRole
       /\ UNCHANGED <<busVars, agentVars, loopVars>>
    \/ /\ \E agent \in ReadAgents : View(agent)
       /\ UNCHANGED <<busVars, agentVars, loopVars>>

SpecRead == InitAlone /\ [][NextRead]_vars

\* the roles SpecView draws transcripts from, and the agents it projects for;
\* the roles treat agentA and agentB alike, so projecting for agentB covers
\* projecting for agentA
ViewRoles == {SYSTEM, USER, ASSISTANT, AgentA, AgentB, SYSTEM_ \o AgentA, SYSTEM_ \o AgentB}
ViewAgents == {NoAgent, AgentB}

\* the content of the i-th message of a drawn transcript: "ma", "mb", ...
ContentAt(i) == <<"m", LowerChars[i]>>

\* any transcript of at most MaxViewLen messages with roles of ViewRoles
InitView ==
    /\ \E n \in 0..MaxViewLen :
         \E roles \in [1..n -> ViewRoles] :
            /\ heap = [i \in 1..n |-> Message(roles[i], ContentAt(i))]
            /\ history = [i \in 1..n |-> i]
    /\ history_stack = <<>>
    /\ saved = <<>>
    /\ op = [name |-> "init", exc |-> "none", msg |-> "", depth |-> 0]
    /\ view_out = NoView

\* each drawn transcript is projected once, for any of the agents: a projection
\* changes nothing that a later one reads
NextView ==
    /\ op.name = "init"
    /\ \E agent \in ViewAgents : View(agent)
    /\ UNCHANGED <<busVars, agentVars, loopVars>>

\* a drawn transcript on its own
InitViewAlone == InitView /\ InitBus /\ InitCallers({}) /\ NoAgents

SpecView == InitViewAlone /\ [][NextView]_vars

(***************************************************************************)
(* The bus under any interleaving of calling threads.                      *)
(***************************************************************************)
\* the threads that call the bus, the names they register, unregister and
\* send to, the agent objects, the name they receive for (registered at some
\* times and unknown at others), the messages, the timeout and the resource
BusThreads == {"t1", "t2"}
BusNames == {AgentA, AgentB}
BusAgents == {"agent1", "agent2"}
MailNames == {AgentA}
BusMessages == {Message(AgentA, <<"x">>), Message(AgentB, <<"y">>)}
BusTimeouts == {Some(PollTimeout)}
BusResources == {"llm"}
BusValues == {"v1"}

\* how many messages were put into the Queue objects qs
RECURSIVE PutCount(_)
PutCount(qs) ==
    IF qs = {} THEN 0
    ELSE LET q == CHOOSE x \in qs : TRUE
         IN Len(queues[q].put) + PutCount(qs \ {q})

NextBus ==
    \/ /\ \E t \in BusThreads, n \in BusNames, a \in BusAgents : RegisterAgent(t, n, a)
       /\ UNCHANGED <<histVars, agentVars, loopVars>>
    \/ /\ \E t \in BusThreads, n \in BusNames : UnregisterAgent(t, n)
       /\ UNCHANGED <<histVars, agentVars, loopVars>>
    \/ /\ \E t \in BusThreads, n \in BusNames, m \in BusMessages :
            /\ PutCount(DOMAIN queues) < MaxPut
            /\ SendMessage(t, n, m)
       /\ UNCHANGED <<histVars, agentVars, loopVars>>
    \/ /\ \E t \in BusThreads, n \in MailNames, timeout \in BusTimeouts :
            ReceiveLookup(t, n, timeout)
       /\ UNCHANGED <<histVars, agentVars, loopVars>>
    \/ /\ \E t \in BusThreads : ReceiveGet(t)
       /\ UNCHANGED <<histVars, agentVars, loopVars>>
    \/ /\ \E t \in BusThreads : ReceiveTimeout(t)
       /\ UNCHANGED <<histVars, agentVars, loopVars>>
    \/ /\ \E t \in BusThreads, r \in BusResources, v \in BusValues : AddResource(t, r, v)
       /\ UNCHANGED <<histVars, agentVars, loopVars>>
    \/ /\ \E t \in BusThreads, r \in BusResources : GetResource(t, r)
       /\ UNCHANGED <<histVars, agentVars, loopVars>>

\* a new bus and its calling threads
InitBusAlone == InitHistory /\ InitBus /\ InitCallers(BusThreads) /\ NoAgents

SpecBus == InitBusAlone /\ [][NextBus]_vars

(***************************************************************************)
(* The agents of conv_agent.py: names, texts and the shared history.       *)
(***************************************************************************)
ROUTER == <<"r", "o", "u", "t", "e", "r">>
MASTERMIND == <<"m", "a", "s", "t", "e", "r", "m", "i", "n", "d">>
CRITIC == <<"c", "r", "i", "t", "i", "c">>
ACTOR == <<"a", "c", "t", "o", "r">>
OBSERVER == <<"o", "b", "s", "e", "r", "v", "e", "r">>
MOVER == <<"m", "o", "v", "e", "r">>
WATCHDOG == <<"w", "a", "t", "c", "h", "d", "o", "g">>

\* Message("none", "none"), the message every agent sends
NONE == <<"n", "o", "n", "e">>
Activation == Message(NONE, NONE)

\* the prompts, the goal and a tool's result, each shortened to one letter
Prompt == <<"p">>
Goal == <<"g">>
ToolResult == <<"t">>

\* the marker phrases, and replies of the model that hold them or do not
PlanCompleteMarker == <<"p", "l", "a", "n", " ", "c", "o", "m", "p", "l", "e", "t", "e">>
TaskCompleteMarker == <<"t", "a", "s", "k", " ", "c", "o", "m", "p", "l", "e", "t", "e">>
WaitingMarker == <<"w", "a", "i", "t", "i", "n", "g">>
ElevenMarker == <<"1", "1">>
ReplyOk == <<"o", "k">>
ReplyPlanComplete == <<"P", "l", "a", "n", " ", "C", "o", "m", "p", "l", "e", "t", "e">>
ReplyTaskComplete == <<"T", "a", "s", "k", " ", "c", "o", "m", "p", "l", "e", "t", "e">>
ReplyWaiting == <<"W", "a", "i", "t", "i", "n", "g">>
ReplyEleven == <<"1", "1">>

\* str.lower(), character by character
LowerOf ==
    [c \in {UpperChars[k] : k \in 1..Len(UpperChars)} |->
        LowerChars[CHOOSE k \in 1..Len(UpperChars) : UpperChars[k] = c]]

Lower(s) == [i \in 1..Len(s) |-> IF s[i] \in DOMAIN LowerOf THEN LowerOf[s[i]] ELSE s[i]]

\* sub in s
Contains(s, sub) ==
    \E i \in 0..(Len(s) - Len(sub)) : SubSeq(s, i + 1, i + Len(sub)) = sub

\* the MessageHistory as a value, for the state functions that call several
\* of its methods in one step
TheHistory ==
    [heap |-> heap, history |-> history, history_stack |-> history_stack, saved |-> saved]

\* MessageHistory.add
HAdd(h, role, content) ==
    [h EXCEPT !.heap = Append(@, Message(role, content)),
              !.history = Append(@, NewId(h.heap))]

\* MessageHistory.start_transaction
HStartTransaction(h) ==
    [h EXCEPT !.history_stack = Append(@, h.history),
              !.saved = Append(@, Deref(h.heap, h.history))]

\* a rollback that restores the list and leaves the transaction open
HRollback_KeepsOpen(h) ==
    [h EXCEPT !.history = h.history_stack[Len(h.history_stack)]]

\* a rollback that closes the transaction and keeps what it added
HRollback_KeepsLive(h) ==
    [h EXCEPT !.history_stack = SubSeq(@, 1, Len(@) - 1),
              !.saved = SubSeq(@, 1, Len(@) - 1)]

\* MessageHistory.rollback inside an open transaction
HRollback(h) ==
    [h EXCEPT !.history = h.history_stack[Len(h.history_stack)],
              !.history_stack = SubSeq(@, 1, Len(@) - 1),
              !.saved = SubSeq(@, 1, Len(@) - 1)]

\* MessageHistory.set_last_role on a history that is not empty
HSetLastRole(h, role) ==
    [h EXCEPT !.heap[h.history[Len(h.history)]].role = role]

\* MessageHistory.last on a history that is not empty
HLast(h) == h.heap[h.history[Len(h.history)]].content

\* the step leaves the MessageHistory as h, its last call on it being name
HStore(h, name) ==
    \E v \in {h} :
        /\ Store(v.heap, v.history, v.history_stack)
        /\ saved' = v.saved
        /\ op' = [name |-> name, exc |-> "none", msg |-> "", depth |-> Len(v.history_stack)]
        /\ view_out' = IF name = "last" THEN [NoView EXCEPT !.value = HLast(v)] ELSE NoView

\* LLMClient.invoke up to the request: to_api_format(agent) on h. The step
\* goes on if the projection is returned, and raises ValueError otherwise.
HProject(h, agent) ==
    LET r == ViewOf(Deref(h.heap, h.history), agent)
    IN /\ Store(h.heap, h.history, h.history_stack)
       /\ saved' = h.saved
       /\ op' = [name |-> "view", exc |-> IF r.msg = "" THEN "none" ELSE "ValueError",
                 msg |-> r.msg, depth |-> Len(h.history_stack)]
       /\ view_out' = [agent |-> agent, renamed |-> r.renamed, value |-> r.value]

Projects(h, agent) == \E v \in {h} : ViewOf(Deref(v.heap, v.history), agent).msg = ""

(***************************************************************************)
(* ThreadedAgent.run and the state functions of conv_agent.py.  A thread   *)
(* is between two state functions ("top"), inside LLMClient.invoke after   *)
(* the request was built ("work"), ended by an exception that run caught   *)
(* ("crashed"), or ended by exit() ("exited").                             *)
(***************************************************************************)
\* ThreadedAgent.__init__ and the fields the subclasses add
AgentThread(cls, initial_state) ==
    [cls |-> cls, state |-> initial_state, past_state |-> "", running |-> TRUE,
     pc |-> "top", planning_complete |-> FALSE, agent_index |-> 0]

\* Router.agents
RouterAgents == <<MASTERMIND, CRITIC, MOVER>>

\* the state function in which the agents of a class call receive_message
PollState(cls) == IF cls = "ChatAgent" THEN "chat" ELSE "wait"

\* the state function a class returns when receive_message gave a message
StateAfterMessage(cls) ==
    CASE cls = "Router" -> "simple_route"
      [] cls = "Watchdog" -> "look"
      [] cls \in {"ChatAgent", "Observer2"} -> PollState(cls)
      [] OTHER -> "chat"

\* the classes whose polling state function goes on to call the model when
\* it was given a message
InvokesAfterMessage == {"ChatAgent", "Observer2"}

\* the classes that open a transaction and add a prompt before they call the model
ProbeClasses == {"Observer2", "Mover", "Watchdog"}

\* run, lines 136-141: the loop is entered with self.running set, and the
\* state function about to be called becomes past_state
Runs(a, state) ==
    /\ threads[a].pc = "top"
    /\ threads[a].running
    /\ threads[a].state = state

Called(a) == [agent |-> a, state |-> threads[a].state]

\* the history on which a class calls llm.invoke
Prepared(cls) ==
    IF cls \in ProbeClasses
    THEN HAdd(HStartTransaction(TheHistory), USER, Prompt)
    ELSE TheHistory

\* a state function calls receive_message(timeout=1) on an empty mailbox (or
\* for a name the bus does not know), is given None and returns itself
PollNone(a) ==
    /\ Runs(a, PollState(threads[a].cls))
    /\ a \in DOMAIN agent_queues => queues[agent_queues[a]].items = <<>>
    /\ bus_op' = BusCall("receive_message", "return", a, None_,
                         IF a \in DOMAIN agent_queues THEN NoLog ELSE "WARNING")
    /\ threads' = [threads EXCEPT ![a].past_state = threads[a].state]
    /\ step' = Called(a)
    /\ UNCHANGED <<agent_queues, queues, agents, resources, lock, receivers>>
    /\ UNCHANGED histVars

\* a state function calls receive_message(timeout=1) and is given a message:
\* it returns the next state function, or goes on to llm.invoke
PollMessage(a) ==
    LET cls == threads[a].cls
    IN /\ Runs(a, PollState(cls))
       /\ a \in DOMAIN agent_queues
       /\ queues[agent_queues[a]].items # <<>>
       /\ queues' = [queues EXCEPT ![agent_queues[a]] = Get(@)]
       /\ bus_op' = BusCall("receive_message", "return", a,
                            Some(Head(queues[agent_queues[a]].items)), NoLog)
       /\ step' = Called(a)
       /\ UNCHANGED <<agent_queues, agents, resources, lock, receivers>>
       /\ IF cls \in InvokesAfterMessage
          THEN /\ HProject(Prepared(cls), a)
               /\ threads' = [threads EXCEPT
                    ![a].past_state = threads[a].state,
                    ![a].pc = IF Projects(Prepared(cls), a) THEN "work" ELSE "crashed"]
          ELSE /\ threads' = [threads EXCEPT
                    ![a].past_state = threads[a].state,
                    ![a].state = StateAfterMessage(cls)]
               /\ UNCHANGED histVars

\* Mastermind.chat, Critic.chat, Actor.chat, Mover.chat and Watchdog.look up
\* to the request of llm.invoke
Begin(a) ==
    LET cls == threads[a].cls
    IN /\ cls \in {"Mastermind", "Critic", "Actor", "Mover", "Watchdog"}
       /\ Runs(a, IF cls = "Watchdog" THEN "look" ELSE "chat")
       /\ HProject(Prepared(cls), a)
       /\ threads' = [threads EXCEPT
            ![a].past_state = threads[a].state,
            ![a].pc = IF Projects(Prepared(cls), a) THEN "work" ELSE "crashed"]
       /\ step' = Called(a)
       /\ UNCHANGED busVars

\* a run that hands the turn back to the router when the state function raised
Fail_HandsBack(a) ==
    /\ threads[a].pc = "work"
    /\ threads' = [threads EXCEPT ![a].pc = "crashed"]
    /\ SendMessage(a, ROUTER, Activation)
    /\ UNCHANGED <<histVars, step>>

\* llm.invoke raises (the request fails): run catches the exception, logs it
\* and the thread ends
Fail(a) ==
    /\ threads[a].pc = "work"
    /\ threads' = [threads EXCEPT ![a].pc = "crashed"]
    /\ UNCHANGED <<histVars, busVars, step>>

\* what a state function does once llm.invoke has returned: the history it
\* leaves and its last call on it, the recipient of its message (None when
\* it sends none), the state function it returns, and whether it goes on
\* ("top") or calls exit() ("exited")
Outcome(h, last_call, to, state, pc, planning_complete) ==
    [h |-> h, last_call |-> last_call, to |-> to, state |-> state, pc |-> pc,
     planning_complete |-> planning_complete]

\* a Critic that hands the turn to the Mastermind when it approves the plan
\* and goes on to plan_complete as well
ReplyOf_CriticHandsOver(a, c) ==
    LET said == HSetLastRole(HAdd(TheHistory, ASSISTANT, c), a)
    IN IF threads[a].cls = "Critic"
       THEN IF ~threads[a].planning_complete
            THEN Outcome(said, "last", Some(MASTERMIND),
                         IF Contains(Lower(c), PlanCompleteMarker)
                         THEN "plan_complete" ELSE "wait",
                         "top", Contains(Lower(c), PlanCompleteMarker))
            ELSE Outcome(said, "last", Some(ACTOR), "wait", "top", TRUE)
       ELSE IF threads[a].cls = "Mastermind"
       THEN Outcome(said, "last", Some(CRITIC), "wait", "top", FALSE)
       ELSE IF Contains(Lower(c), TaskCompleteMarker)
       THEN Outcome(said, "last", None_, "chat", "exited", FALSE)
       ELSE Outcome(HAdd(said, USER, ToolResult), "last", Some(MASTERMIND),
                    "wait", "top", FALSE)

\* the rest of ChatAgent.chat, Mastermind.chat, Critic.chat, Actor.chat,
\* Observer2.wait, Mover.chat and Watchdog.look, for the reply c of the model
ReplyOf(a, c) ==
    LET cls == threads[a].cls
        \* invoke adds the reply as "assistant"
        added == HAdd(TheHistory, ASSISTANT, c)
        \* set_last_role(self.name)
        said == HSetLastRole(added, a)
    IN CASE cls = "ChatAgent" ->
                Outcome(said, "last", Some(ROUTER), "chat", "top", FALSE)
         [] cls = "Mastermind" ->
                Outcome(said, "last", Some(CRITIC), "wait", "top", FALSE)
         [] cls = "Critic" ->
                IF ~threads[a].planning_complete
                THEN IF Contains(Lower(c), PlanCompleteMarker)
                     THEN Outcome(said, "last", None_, "plan_complete", "top", TRUE)
                     ELSE Outcome(said, "last", Some(MASTERMIND), "wait", "top", FALSE)
                ELSE Outcome(said, "last", Some(ACTOR), "wait", "top", TRUE)
         [] cls = "Actor" ->
                IF Contains(Lower(c), TaskCompleteMarker)
                THEN Outcome(said, "last", None_, "chat", "exited", FALSE)
                ELSE Outcome(HAdd(said, USER, ToolResult), "last", Some(MASTERMIND),
                             "wait", "top", FALSE)
         [] cls = "Observer2" ->
                Outcome(HAdd(HRollback(added), a, ToolResult), "last", Some(ROUTER),
                        "wait", "top", FALSE)
         [] cls = "Mover" ->
                IF ~Contains(Lower(c), WaitingMarker)
                THEN Outcome(HAdd(HRollback(said), USER, ToolResult), "last",
                             Some(ROUTER), "wait", "top", FALSE)
                ELSE Outcome(HRollback(said), "rollback", Some(ROUTER), "wait", "top", FALSE)
         [] cls = "Watchdog" ->
                IF Contains(c, ElevenMarker)
                THEN Outcome(added, "last", None_, "look", "exited", FALSE)
                ELSE Outcome(HRollback(added), "rollback", Some(ROUTER), "wait", "top", FALSE)

\* llm.invoke returns with the reply c and the state function runs to its end
Reply(a, c) ==
    /\ threads[a].pc = "work"
    /\ LET o == ReplyOf(a, c)
       IN /\ HStore(o.h, o.last_call)
          /\ IF o.to # None_
             THEN SendMessage(a, o.to[1], Activation)
             ELSE UNCHANGED busVars
          /\ threads' = [threads EXCEPT ![a].state = o.state, ![a].pc = o.pc,
                                        ![a].planning_complete = o.planning_complete]
    /\ UNCHANGED step

\* a router that sends the activation to every agent of its list
SimpleRoute_Broadcast(a) ==
    /\ threads[a].cls = "Router"
    /\ Runs(a, "simple_route")
    /\ queues' = [q \in DOMAIN queues |->
                    IF \E k \in 1..Len(RouterAgents) :
                            /\ RouterAgents[k] \in DOMAIN agent_queues
                            /\ agent_queues[RouterAgents[k]] = q
                    THEN Put(queues[q], Activation) ELSE queues[q]]
    /\ bus_op' = BusCall("send_message", "return", RouterAgents[1], None_, NoLog)
    /\ threads' = [threads EXCEPT
            ![a].past_state = "simple_route",
            ![a].agent_index = (threads[a].agent_index + 1) % Len(RouterAgents),
            ![a].state = "wait"]
    /\ step' = Called(a)
    /\ UNCHANGED <<agent_queues, agents, resources, lock, receivers>>
    /\ UNCHANGED histVars

\* a router that addresses the same agent of its list every time
SimpleRoute_SameAgent(a) ==
    /\ threads[a].cls = "Router"
    /\ Runs(a, "simple_route")
    /\ SendMessage(a, RouterAgents[threads[a].agent_index + 1], Activation)
    /\ threads' = [threads EXCEPT ![a].past_state = "simple_route", ![a].state = "wait"]
    /\ step' = Called(a)
    /\ UNCHANGED histVars

\* Router.simple_route
SimpleRoute(a) ==
    /\ threads[a].cls = "Router"
    /\ Runs(a, "simple_route")
    /\ SendMessage(a, RouterAgents[threads[a].agent_index + 1], Activation)
    /\ threads' = [threads EXCEPT
            ![a].past_state = "simple_route",
            ![a].agent_index = (threads[a].agent_index + 1) % Len(RouterAgents),
            ![a].state = "wait"]
    /\ step' = Called(a)
    /\ UNCHANGED histVars

\* Critic.plan_complete
PlanComplete(a) ==
    /\ threads[a].cls = "Critic"
    /\ Runs(a, "plan_complete")
    /\ HStore(HAdd(TheHistory, USER, Prompt), "last")
    /\ SendMessage(a, MASTERMIND, Activation)
    /\ threads' = [threads EXCEPT ![a].past_state = "plan_complete", ![a].state = "wait"]
    /\ step' = Called(a)

(***************************************************************************)
(* main: the two topologies.                                               *)
(***************************************************************************)
Agent(name, cls, initial_state) == [name |-> name, cls |-> cls, initial_state |-> initial_state]

\* Router(bus); Mastermind2(bus); Critic2(bus); Observer2(bus); Mover(bus); Watchdog(bus)
RouterTopology ==
    <<Agent(ROUTER, "Router", "simple_route"),
      Agent(MASTERMIND, "ChatAgent", "chat"),
      Agent(CRITIC, "ChatAgent", "chat"),
      Agent(OBSERVER, "Observer2", "wait"),
      Agent(MOVER, "Mover", "wait"),
      Agent(WATCHDOG, "Watchdog", "wait")>>

\* Mastermind("mastermind", bus); Critic("critic", bus); Actor("actor", bus)
RelayTopology ==
    <<Agent(MASTERMIND, "Mastermind", "chat"),
      Agent(CRITIC, "Critic", "wait"),
      Agent(ACTOR, "Actor", "wait")>>

Names(topology) == {topology[i].name : i \in 1..Len(topology)}

IndexOf(topology, name) == CHOOSE i \in 1..Len(topology) : topology[i].name = name

\* main up to the start of the threads: the history holds the overall system
\* prompt, the system prompt each constructor added and the goal; the bus
\* holds the three resources and an empty mailbox per agent
Constructed(topology) ==
    /\ heap = <<Message(SYSTEM, Prompt)>>
                \o [i \in 1..Len(topology) |-> Message(SYSTEM_ \o topology[i].name, Prompt)]
                \o <<Message(USER, Goal)>>
    /\ history = [i \in 1..(Len(topology) + 2) |-> i]
    /\ history_stack = <<>>
    /\ saved = <<>>
    /\ op = [name |-> "add", exc |-> "none", msg |-> "", depth |-> 0]
    /\ view_out = NoView
    /\ agent_queues = [n \in Names(topology) |-> IndexOf(topology, n)]
    /\ queues = [q \in 1..Len(topology) |-> NewQueue]
    /\ agents = [n \in Names(topology) |-> n]
    /\ resources = [r \in {"llm", "llama", "history"} |-> r]
    /\ lock = None_
    /\ InitCallers(Names(topology))

\* every agent's thread is started
Started(topology) ==
    /\ threads = [n \in Names(topology) |->
                    AgentThread(topology[IndexOf(topology, n)].cls,
                                topology[IndexOf(topology, n)].initial_state)]
    /\ step = NoStep
    /\ NoLoop
    /\ NoTable
    /\ NoTools

\* what the model answers in the router topology and in the relay topology
RouterReplies == {ReplyOk, ReplyWaiting, ReplyEleven}
RelayReplies == {ReplyOk, ReplyPlanComplete, ReplyTaskComplete}

NextRouter ==
    \/ \E a \in DOMAIN threads : PollNone(a) /\ UNCHANGED loopVars
    \/ \E a \in DOMAIN threads : PollMessage(a) /\ UNCHANGED loopVars
    \/ \E a \in DOMAIN threads : Begin(a) /\ UNCHANGED loopVars
    \/ \E a \in DOMAIN threads, c \in RouterReplies : Reply(a, c) /\ UNCHANGED loopVars
    \/ \E a \in DOMAIN threads : Fail(a) /\ UNCHANGED loopVars
    \/ \E a \in DOMAIN threads :
            /\ Len(history) < MaxTranscript
            /\ SimpleRoute(a)
            /\ UNCHANGED loopVars

InitRouter == Constructed(RouterTopology) /\ Started(RouterTopology)

SpecRouter == InitRouter /\ [][NextRouter]_vars

NextRelay ==
    \/ \E a \in DOMAIN threads : PollNone(a) /\ UNCHANGED loopVars
    \/ \E a \in DOMAIN threads : PollMessage(a) /\ UNCHANGED loopVars
    \/ \E a \in DOMAIN threads :
            /\ Len(history) < MaxRelayTranscript
            /\ Begin(a)
            /\ UNCHANGED loopVars
    \/ \E a \in DOMAIN threads, c \in RelayReplies : Reply(a, c) /\ UNCHANGED loopVars
    \/ \E a \in DOMAIN threads : Fail(a) /\ UNCHANGED loopVars
    \/ \E a \in DOMAIN threads : PlanComplete(a) /\ UNCHANGED loopVars

InitRelay == Constructed(RelayTopology) /\ Started(RelayTopology)

SpecRelay == InitRelay /\ [][NextRelay]_vars

(***************************************************************************)
(* multi_agent.py: a MotorControlAgent and a ReasoningAgent on one bus,    *)
(* each driven by ThreadedAgent.run, and the main thread that stops them.  *)
(* The loop of run is followed position by position: "top" is the test of  *)
(* self.running, "iter" the loop body before the state function is called, *)
(* "work" the state function in progress, "crashed" the end of the thread  *)
(* after run caught an exception, "ended" its end after the loop was left. *)
(* run_log holds what run itself logs, not what the state functions log.   *)
(***************************************************************************)
MOTOR == <<"M", "o", "t", "o", "r", "C", "o", "n", "t", "r", "o", "l", "A", "g", "e", "n", "t">>
REASONING == <<"R", "e", "a", "s", "o", "n", "i", "n", "g", "A", "g", "e", "n", "t">>
MAIN == <<"m", "a", "i", "n">>

AskPrompt == <<"a">>
ExecPrompt == <<"e">>
Done == <<"d", "o", "n", "e">>
StepsCompleteMarker == <<"s", "t", "e", "p", "s", " ", "c", "o", "m", "p", "l", "e", "t", "e">>
ReplyStepsComplete == <<"S", "t", "e", "p", "s", " ", "c", "o", "m", "p", "l", "e", "t", "e">>

\* what the model answers to MotorControlAgent.execution
PairReplies == {ReplyOk, ReplyStepsComplete}

\* ThreadedAgent.__init__ and the field MotorControlAgent.plan
PairThread(cls, initial_state) ==
    [cls |-> cls, state |-> initial_state, past_state |-> "", running |-> TRUE,
     pc |-> "top", plan |-> None_]

\* the state functions that call receive_message(timeout=1)
PairPolls == {"waiting_for_plan", "waiting_for_motor"}

\* the state functions that call llm.invoke
PairInvokes == {"observation", "execution", "planning"}

\* the order in which main calls stop()
StopOrder == <<MOTOR, REASONING>>

\* the place of x in the sequence seq
Position(seq, x) == CHOOSE i \in 1..Len(seq) : seq[i] = x

MainAt(at, i) == [at |-> at, i |-> i]

Entered(state) == [level |-> "INFO", entered |-> state]

Caught == [level |-> "ERROR", entered |-> ""]

\* main up to time.sleep: the resource is added, both agents are constructed
\* (the MotorControlAgent has added its system prompt to its history) and
\* both threads are started
InitPair ==
    /\ heap = <<Message(SYSTEM, Prompt)>>
    /\ history = <<1>>
    /\ history_stack = <<>>
    /\ saved = <<>>
    /\ op = [name |-> "add", exc |-> "none", msg |-> "", depth |-> 0]
    /\ view_out = NoView
    /\ agent_queues = (MOTOR :> 1) @@ (REASONING :> 2)
    /\ queues = <<NewQueue, NewQueue>>
    /\ agents = (MOTOR :> MOTOR) @@ (REASONING :> REASONING)
    /\ resources = [r \in {"llm"} |-> r]
    /\ lock = None_
    /\ InitCallers({MOTOR, REASONING, MAIN})
    /\ threads = (MOTOR :> PairThread("MotorControlAgent", "waiting_for_plan"))
                    @@ (REASONING :> PairThread("ReasoningAgent", "request_goal"))
    /\ step = [a \in {MOTOR, REASONING} |-> [state |-> "", ret |-> ""]]
    /\ run_log = [a \in {MOTOR, REASONING} |-> <<>>]
    /\ executed = [a \in {MOTOR, REASONING} |-> <<>>]
    /\ main_pc = MainAt("stop", 1)
    /\ stopped = [a \in {MOTOR, REASONING} |-> None_]
    /\ NoTable
    /\ NoTools

\* a loop that never looks at self.running
LoopTest_IgnoresFlag(a) ==
    /\ threads[a].pc = "top"
    /\ threads' = [threads EXCEPT ![a].pc = "iter"]
    /\ UNCHANGED <<histVars, busVars, step, loopVars>>

\* run, line 136: while self.running
LoopTest(a) ==
    /\ threads[a].pc = "top"
    /\ threads' = [threads EXCEPT ![a].pc = IF threads[a].running THEN "iter" ELSE "ended"]
    /\ UNCHANGED <<histVars, busVars, step, loopVars>>

\* the loop reports a state that differs from the one it reported last
Report_EveryIteration(past_state, state) == TRUE

\* run, line 139: if state != self.past_state
Report(past_state, state) == state # past_state

\* run, lines 137-142: the state is read, reported if it is not the state of
\* the previous iteration, and sm.update() calls it
Enter(a) ==
    LET state == threads[a].state
    IN /\ threads[a].pc = "iter"
       /\ threads' = [threads EXCEPT ![a].pc = "work", ![a].past_state = state]
       /\ run_log' = [run_log EXCEPT ![a] =
                        IF Report(threads[a].past_state, state)
                        THEN Append(@, Entered(state)) ELSE @]
       /\ executed' = [executed EXCEPT ![a] = Append(@, state)]
       /\ UNCHANGED <<histVars, busVars, step, main_pc, stopped, tableVars>>

\* the MessageHistory of the MotorControlAgent when its state function calls
\* llm.invoke: observation has called start_transaction and add, execution
\* has called add
PreInvoke(state) ==
    CASE state = "observation" ->
            [heap |-> Append(heap, Message(USER, AskPrompt)),
             history |-> Append(history, Len(heap) + 1),
             history_stack |-> Append(history_stack, history),
             saved |-> Append(saved, Deref(heap, history))]
      [] state = "execution" ->
            [heap |-> Append(heap, Message(USER, ExecPrompt)),
             history |-> Append(history, Len(heap) + 1),
             history_stack |-> history_stack,
             saved |-> saved]
      [] OTHER -> TheHistory

\* the history a state function passes to llm.invoke: ReasoningAgent.planning
\* builds its own, of a system prompt and the goal
Requested(state) ==
    IF state = "planning"
    THEN [heap |-> <<Message(SYSTEM, Prompt), Message(USER, Goal)>>, history |-> <<1, 2>>,
          history_stack |-> <<>>, saved |-> <<>>]
    ELSE PreInvoke(state)

\* the agent's mailbox holds a message
HasMail(a) == a \in DOMAIN agent_queues /\ queues[agent_queues[a]].items # <<>>

\* the value the state function returns: c is the reply of the model, mail
\* tells whether receive_message gave a message
Returned(state, c, mail) ==
    CASE state = "waiting_for_plan" -> IF mail THEN "observation" ELSE "waiting_for_plan"
      [] state = "observation" -> "execution"
      [] state = "execution" ->
            IF Contains(Lower(c), StepsCompleteMarker) THEN "done_or_error" ELSE "observation"
      [] state = "done_or_error" -> "waiting_for_plan"
      [] state = "request_goal" -> "planning"
      [] state = "planning" -> "waiting_for_motor"
      [] state = "waiting_for_motor" -> IF mail THEN "request_goal" ELSE "waiting_for_motor"

\* an engine that keeps the state when the state function returns another one
Update_OnlyPolls(state, returned) == IF state \in PairPolls THEN returned ELSE state

\* StateMachine.update: self.state = self.state(*args, **kwargs)
Update(state, returned) == returned

\* the MessageHistory the state function leaves, and its last call on it.
\* waiting_for_plan: clear_all_but_system, add.  observation: after
\* start_transaction, add and invoke, rollback puts the list of before the
\* transaction back, and the question and the result of the tool are added.
\* execution: add, invoke, and add of the result of the tool unless the
\* reply holds "steps complete".
HistoryAfter(state, c, mail, content) ==
    CASE state = "waiting_for_plan" /\ mail ->
            [h |-> [heap |-> Append(heap, Message(USER, content)),
                    history |-> Append(IF Len(history) > 1 THEN <<history[1]>> ELSE history,
                                       Len(heap) + 1),
                    history_stack |-> history_stack,
                    saved |-> saved],
             last_call |-> "add"]
      [] state = "observation" ->
            [h |-> HAdd(HAdd(HRollback(HAdd(HAdd(HStartTransaction(TheHistory),
                                                 USER, AskPrompt),
                                            ASSISTANT, c)),
                             ASSISTANT, c),
                        ASSISTANT, ToolResult),
             last_call |-> "add"]
      [] state = "execution" /\ Contains(Lower(c), StepsCompleteMarker) ->
            [h |-> [heap |-> heap \o <<Message(USER, ExecPrompt), Message(ASSISTANT, c)>>,
                    history |-> history \o <<Len(heap) + 1, Len(heap) + 2>>,
                    history_stack |-> history_stack,
                    saved |-> saved],
             last_call |-> "last"]
      [] state = "execution" /\ ~Contains(Lower(c), StepsCompleteMarker) ->
            [h |-> [heap |-> heap \o <<Message(USER, ExecPrompt), Message(ASSISTANT, c),
                                       Message(USER, ToolResult)>>,
                    history |-> history \o <<Len(heap) + 1, Len(heap) + 2, Len(heap) + 3>>,
                    history_stack |-> history_stack,
                    saved |-> saved],
             last_call |-> "add"]
      [] OTHER -> [h |-> TheHistory, last_call |-> ""]

\* the state function in progress runs to its end with the reply c of the
\* model, and update stores what it returned
StepReturn(a, c) ==
    LET state == threads[a].state
        mail == HasMail(a)
        message == Head(queues[agent_queues[a]].items)
        after == HistoryAfter(state, c, mail, IF mail THEN message.content ELSE EmptyStr)
        ret == Returned(state, c, mail)
    IN /\ threads[a].pc = "work"
       /\ state # "execution" => c = ReplyOk
       /\ threads' = [threads EXCEPT
                ![a].state = Update(state, ret),
                ![a].pc = "top",
                ![a].plan = IF state = "waiting_for_plan" /\ mail THEN Some(message.content) ELSE @]
       /\ step' = [step EXCEPT ![a] = [state |-> state, ret |-> ret]]
       /\ UNCHANGED loopVars
       /\ CASE state \in PairPolls /\ mail ->
                    /\ queues' = [queues EXCEPT ![agent_queues[a]] = Get(@)]
                    /\ bus_op' = BusCall("receive_message", "return", a, Some(message), NoLog)
                    /\ UNCHANGED <<agent_queues, agents, resources, lock, receivers>>
            [] state \in PairPolls /\ ~mail ->
                    /\ bus_op' = BusCall("receive_message", "return", a, None_,
                                         IF a \in DOMAIN agent_queues THEN NoLog ELSE "WARNING")
                    /\ UNCHANGED <<agent_queues, queues, agents, resources, lock, receivers>>
            [] state = "done_or_error" -> SendMessage(a, REASONING, Message(USER, Done))
            [] state = "planning" -> SendMessage(a, MOTOR, Message(ASSISTANT, c))
            [] OTHER -> UNCHANGED busVars
       /\ state \in PairInvokes => Projects(Requested(state), NoAgent)
       /\ IF after.last_call = ""
          THEN UNCHANGED histVars
          ELSE HStore(after.h, after.last_call)

\* a failure in one agent's state function that ends every agent's loop
StepRaise_StopsAll(a) ==
    LET state == threads[a].state
    IN /\ threads[a].pc = "work"
       /\ state \in PairInvokes
       /\ IF state = "planning"
          THEN UNCHANGED histVars
          ELSE HStore(PreInvoke(state), "add")
       /\ threads' = [b \in DOMAIN threads |->
                        [threads[b] EXCEPT !.pc = IF b = a \/ @ = "top" THEN "crashed" ELSE @]]
       /\ run_log' = [run_log EXCEPT ![a] = Append(@, Caught)]
       /\ UNCHANGED <<busVars, step, executed, main_pc, stopped, tableVars>>

\* a run that unregisters the agent when its state function raised
StepRaise_Unregisters(a) ==
    LET state == threads[a].state
    IN /\ threads[a].pc = "work"
       /\ state \in PairInvokes
       /\ IF state = "planning"
          THEN UNCHANGED histVars
          ELSE HStore(PreInvoke(state), "add")
       /\ threads' = [threads EXCEPT ![a].pc = "crashed"]
       /\ run_log' = [run_log EXCEPT ![a] = Append(@, Caught)]
       /\ UnregisterAgent(a, a)
       /\ UNCHANGED <<step, executed, main_pc, stopped, tableVars>>

\* llm.invoke raises inside the state function (the projection or the
\* request fails): run catches the exception, logs it, and the thread ends.
\* What the state function did to its history before the call stays.
StepRaise(a) ==
    LET state == threads[a].state
    IN /\ threads[a].pc = "work"
       /\ state \in PairInvokes
       /\ IF state = "planning"
          THEN UNCHANGED histVars
          ELSE HStore(PreInvoke(state), "add")
       /\ threads' = [threads EXCEPT ![a].pc = "crashed"]
       /\ run_log' = [run_log EXCEPT ![a] = Append(@, Caught)]
       /\ UNCHANGED <<busVars, step, executed, main_pc, stopped, tableVars>>

\* a stop that ends the thread at once, inside whatever it is doing
StopFlag_Preemptive(a) ==
    /\ main_pc = MainAt("stop", Position(StopOrder, a))
    /\ threads' = [threads EXCEPT ![a].running = FALSE,
                                  ![a].pc = IF @ = "crashed" THEN @ ELSE "ended"]
    /\ main_pc' = MainAt("unregister", main_pc.i)
    /\ UNCHANGED <<histVars, busVars, step, run_log, executed, stopped, tableVars>>

\* ThreadedAgent.stop, line 147, called by main when time.sleep has
\* returned: self.running = False
StopFlag(a) ==
    /\ main_pc = MainAt("stop", Position(StopOrder, a))
    /\ threads' = [threads EXCEPT ![a].running = FALSE]
    /\ main_pc' = MainAt("unregister", main_pc.i)
    /\ UNCHANGED <<histVars, busVars, step, run_log, executed, stopped, tableVars>>

\* ThreadedAgent.stop, line 148, and Agent.stop: the agent is unregistered
\* and stop() returns
StopUnregister(a) ==
    /\ main_pc = MainAt("unregister", Position(StopOrder, a))
    /\ UnregisterAgent(MAIN, a)
    /\ main_pc' = IF main_pc.i < Len(StopOrder)
                  THEN MainAt("stop", main_pc.i + 1) ELSE MainAt("join", 1)
    /\ stopped' = [stopped EXCEPT ![a] = Some(Len(executed[a]))]
    /\ UNCHANGED <<histVars, agentVars, run_log, executed, tableVars>>

\* the thread has ended
Terminated(a) == threads[a].pc \in {"crashed", "ended"}

\* main: motor_agent.join() and reasoning_agent.join() return
Join(a) ==
    /\ main_pc = MainAt("join", Position(StopOrder, a))
    /\ Terminated(a)
    /\ main_pc' = IF main_pc.i < Len(StopOrder)
                  THEN MainAt("join", main_pc.i + 1) ELSE MainAt("shutdown", 1)
    /\ UNCHANGED <<histVars, busVars, agentVars, run_log, executed, stopped, tableVars>>

\* how often the loop of the agent called again the state function it had
\* just called
Idle(a) ==
    Cardinality({k \in 1..(Len(executed[a]) - 1) : executed[a][k] = executed[a][k + 1]})

\* the loop body is entered only within the bounds
Bounded(a) ==
    threads'[a].pc = "iter" =>
        /\ Len(executed[a]) < MaxSteps
        /\ (threads[a].state \in PairPolls /\ ~HasMail(a)) =>
                Idle(MOTOR) + Idle(REASONING) < MaxIdle

NextPair ==
    \/ \E a \in DOMAIN threads :
            /\ LoopTest(a)
            /\ Bounded(a)
    \/ \E a \in DOMAIN threads : Enter(a)
    \/ \E a \in DOMAIN threads, c \in PairReplies : StepReturn(a, c)
    \/ \E a \in DOMAIN threads : StepRaise(a)
    \/ \E a \in DOMAIN threads : StopFlag(a)
    \/ \E a \in DOMAIN threads : StopUnregister(a)
    \/ \E a \in DOMAIN threads : Join(a)

SpecPair == InitPair /\ [][NextPair]_vars

\* what the thread of agent a does when nothing fails
ThreadStep(a) ==
    \/ /\ LoopTest(a)
       /\ Bounded(a)
    \/ Enter(a)
    \/ \E c \in PairReplies : StepReturn(a, c)

\* what the main thread does
MainStep == \E a \in DOMAIN threads : StopFlag(a) \/ StopUnregister(a) \/ Join(a)

\* the scheduler gives every thread its turn: a state function in progress
\* returns (receive_message has a timeout, the calls of the model and of
\* the tools are taken to return), and time.sleep of main returns
SpecPairFair ==
    /\ SpecPair
    /\ \A a \in {MOTOR, REASONING} : WF_vars(ThreadStep(a))
    /\ WF_vars(MainStep)

(***************************************************************************)
(* The two agents of multi_agent.py with a main thread that also sends     *)
(* messages to an agent whose loop has ended by an exception.              *)
(***************************************************************************)
\* the main thread calls bus.send_message(a, ...) for an agent whose thread
\* has ended by an exception
Post(a) ==
    /\ threads[a].pc = "crashed"
    /\ a \in DOMAIN agent_queues => Len(queues[agent_queues[a]].items) < MaxPost
    /\ SendMessage(MAIN, a, Message(USER, Done))
    /\ UNCHANGED <<histVars, agentVars, loopVars>>

NextOutage ==
    \/ \E a \in DOMAIN threads :
            /\ LoopTest(a)
            /\ Bounded(a)
    \/ \E a \in DOMAIN threads : Enter(a)
    \/ \E a \in DOMAIN threads, c \in PairReplies : StepReturn(a, c)
    \/ \E a \in DOMAIN threads : StepRaise(a)
    \/ \E a \in DOMAIN threads : StopFlag(a)
    \/ \E a \in DOMAIN threads : StopUnregister(a)
    \/ \E a \in DOMAIN threads : Join(a)
    \/ \E a \in DOMAIN threads : Post(a)

SpecOutage == InitPair /\ [][NextOutage]_vars

(***************************************************************************)
(* mb2.py: the table-driven StateMachine.  transitions maps a state to the *)
(* list of (condition, state_to) pairs registered for it, in the order of  *)
(* the add_transition calls.  The conditions are the bound methods of the  *)
(* two agents of mb2.py and the default lambda: True.                      *)
(***************************************************************************)
DefaultCondition == "lambda"

\* StateMachine.__init__
NewStateMachine(initial_state) == [state |-> initial_state, transitions |-> <<>>]

\* add_transition(state_from, state_to, condition)
AddTransition(transitions, state_from, state_to, condition) ==
    LET listed == IF state_from \in DOMAIN transitions
                  THEN transitions
                  ELSE transitions @@ (state_from :> <<>>)
    IN  [listed EXCEPT ![state_from] =
            Append(@, [condition |-> condition, state_to |-> state_to])]

\* the add_transition calls of MotorControlAgent.setup_state_machine and of
\* ReasoningAgent.setup_state_machine, in their order
SetupCalls(cls) ==
    IF cls = "MotorControlAgent"
    THEN << <<"waiting_for_plan", "observation", "plan_received">>,
            <<"observation", "done_or_error", "plan_complete_or_error">>,
            <<"done_or_error", "waiting_for_plan", DefaultCondition>>,
            <<"observation", "execution", "observation_done">>,
            <<"execution", "observation", "execution_done">> >>
    ELSE << <<"request_goal", "planning", "goal_received">>,
            <<"planning", "waiting_for_motor", "plan_created">>,
            <<"waiting_for_motor", "request_goal", "replan_requested">> >>

RECURSIVE AddAll(_, _)
AddAll(transitions, calls) ==
    IF calls = <<>> THEN transitions
    ELSE AddAll(AddTransition(transitions, calls[1][1], calls[1][2], calls[1][3]),
                Tail(calls))

\* the states the two agents of mb2.py name, and one that no transition names
TableStates ==
    {"waiting_for_plan", "observation", "execution", "done_or_error",
     "request_goal", "planning", "waiting_for_motor", "idle"}

\* what the conditions answer when update() calls them: plan_received is
\* self.plan is not None, plan_complete_or_error looks for "steps complete"
\* in the lowered last message, every other condition returns True
Holds(condition, plan, last) ==
    CASE condition = "plan_received" -> plan # None_
      [] condition = "plan_complete_or_error" -> Contains(Lower(last), StepsCompleteMarker)
      [] OTHER -> TRUE

\* how many transitions are registered
RECURSIVE Registered(_, _)
Registered(transitions, states) ==
    IF states = {} THEN 0
    ELSE LET s == CHOOSE s \in states : TRUE
         IN  Len(transitions[s]) + Registered(transitions, states \ {s})

TableCall(name, plan, last, evaluated) ==
    [name |-> name, plan |-> plan, last |-> last, evaluated |-> evaluated]

InitTable ==
    /\ InitHistory
    /\ InitBus
    /\ InitCallers({})
    /\ threads = <<>>
    /\ step = NoStep
    /\ NoLoop
    /\ \E initial_state \in {"waiting_for_plan", "request_goal"} :
            sm = NewStateMachine(initial_state)
    /\ table_op = TableCall("init", None_, <<>>, <<>>)
    /\ NoTools

\* setup_state_machine, called by __init__ and again by wait_for_plan
SetupStateMachine(cls) ==
    /\ Registered(sm.transitions, DOMAIN sm.transitions) + Len(SetupCalls(cls))
            <= MaxTransitions
    /\ sm' = [sm EXCEPT !.transitions = AddAll(@, SetupCalls(cls))]
    /\ table_op' = TableCall("setup_state_machine", None_, <<>>, <<>>)

\* set_state(state)
SetState(state) ==
    /\ sm' = [sm EXCEPT !.state = state]
    /\ table_op' = TableCall("set_state", None_, <<>>, <<>>)

\* a loop without the break: every condition of the list is called and the
\* last one that holds decides
RECURSIVE FirstMatch_NoBreak(_, _, _, _, _)
FirstMatch_NoBreak(state, listed, plan, last, evaluated) ==
    IF listed = <<>> THEN [state |-> state, evaluated |-> evaluated]
    ELSE FirstMatch_NoBreak(IF Holds(listed[1].condition, plan, last)
                            THEN listed[1].state_to ELSE state,
                            Tail(listed), plan, last,
                            Append(evaluated, listed[1].condition))

\* update: for condition, state_to in self.transitions[self.state]:
\* if condition(): self.state = state_to; break
RECURSIVE FirstMatch(_, _, _, _, _)
FirstMatch(state, listed, plan, last, evaluated) ==
    IF listed = <<>> THEN [state |-> state, evaluated |-> evaluated]
    ELSE IF Holds(listed[1].condition, plan, last)
         THEN [state |-> listed[1].state_to,
               evaluated |-> Append(evaluated, listed[1].condition)]
         ELSE FirstMatch(state, Tail(listed), plan, last,
                         Append(evaluated, listed[1].condition))

\* update()
TableUpdate(plan, last) ==
    LET result == IF sm.state \in DOMAIN sm.transitions
                  THEN FirstMatch(sm.state, sm.transitions[sm.state], plan, last, <<>>)
                  ELSE [state |-> sm.state, evaluated |-> <<>>]
    IN  /\ sm' = [sm EXCEPT !.state = result.state]
        /\ table_op' = TableCall("update", plan, last, result.evaluated)

TablePlans == {None_, Some(ReplyOk)}
TableLasts == {ReplyOk, ReplyStepsComplete}

NextTable ==
    \/ /\ \E cls \in {"MotorControlAgent", "ReasoningAgent"} : SetupStateMachine(cls)
       /\ UNCHANGED <<histVars, busVars, agentVars, run_log, executed, main_pc, stopped, toolVars>>
    \/ /\ \E state \in TableStates : SetState(state)
       /\ UNCHANGED <<histVars, busVars, agentVars, run_log, executed, main_pc, stopped, toolVars>>
    \/ /\ \E plan \in TablePlans, last \in TableLasts : TableUpdate(plan, last)
       /\ UNCHANGED <<histVars, busVars, agentVars, run_log, executed, main_pc, stopped, toolVars>>

SpecTable == InitTable /\ [][NextTable]_vars

(***************************************************************************)
(* LLMClient.invoke on a MessageHistory of its own: the projection, the    *)
(* request to the model, and the add of the reply.                         *)
(***************************************************************************)
\* what client.chat.completions.create does: it returns a reply, or raises
InvokeResponses == {Some(c) : c \in ReplyContents} \cup {None_}

\* what invoke returned: the history object it was given, as its messages
InvokeReturn(agent, messages) == [agent |-> agent, renamed |-> <<>>, value |-> messages]

\* an invoke that adds the entry for the reply before it sends the request
Invoke_AddsFirst(agent, response) ==
    LET r == ViewOf(LiveValues, agent)
        content == IF response = None_ THEN EmptyStr ELSE response[1]
    IN  IF r.msg # ""
        THEN /\ op' = Call("invoke", "ValueError", r.msg)
             /\ view_out' = InvokeReturn(agent, <<>>)
             /\ UNCHANGED <<heap, history, history_stack, saved>>
        ELSE /\ Store(Append(heap, Message(ASSISTANT, content)),
                      Append(history, NewId(heap)), history_stack)
             /\ op' = IF response = None_ THEN Call("invoke", "APIError", "") ELSE Ok("invoke")
             /\ view_out' = InvokeReturn(agent, IF response = None_ THEN <<>>
                                ELSE Append(LiveValues, Message(ASSISTANT, content)))
             /\ UNCHANGED saved

\* LLMClient.invoke(message_history, agent)
Invoke(agent, response) ==
    LET r == ViewOf(LiveValues, agent)
    IN  IF r.msg # ""
        THEN \* to_api_format raises before the request is sent
             /\ op' = Call("invoke", "ValueError", r.msg)
             /\ view_out' = InvokeReturn(agent, <<>>)
             /\ UNCHANGED <<heap, history, history_stack, saved>>
        ELSE IF response = None_
        THEN \* create raises
             /\ op' = Call("invoke", "APIError", "")
             /\ view_out' = InvokeReturn(agent, <<>>)
             /\ UNCHANGED <<heap, history, history_stack, saved>>
        ELSE \* message_history.add("assistant", content); return message_history
             /\ Store(Append(heap, Message(ASSISTANT, response[1])),
                      Append(history, NewId(heap)), history_stack)
             /\ op' = Ok("invoke")
             /\ view_out' = InvokeReturn(agent, Append(LiveValues, Message(ASSISTANT, response[1])))
             /\ UNCHANGED saved

\* any transcript of at most MaxInvokeLen messages with roles of ViewRoles
InitInvoke ==
    /\ \E n \in 0..MaxInvokeLen :
         \E roles \in [1..n -> ViewRoles] :
            /\ heap = [i \in 1..n |-> Message(roles[i], ContentAt(i))]
            /\ history = [i \in 1..n |-> i]
    /\ history_stack = <<>>
    /\ saved = <<>>
    /\ op = [name |-> "init", exc |-> "none", msg |-> "", depth |-> 0]
    /\ view_out = NoView
    /\ InitBus
    /\ InitCallers({})
    /\ NoAgents

\* invoke on the drawn transcript, outside and inside transactions, and again
\* on what an invoke has left
NextInvoke ==
    \/ /\ Len(history_stack) < MaxDepth
       /\ StartTransaction
       /\ UNCHANGED <<busVars, agentVars, loopVars>>
    \/ /\ Len(history) <= MaxInvokeLen
       /\ \E agent \in ViewAgents, response \in InvokeResponses : Invoke(agent, response)
       /\ UNCHANGED <<busVars, agentVars, loopVars>>

SpecInvoke == InitInvoke /\ [][NextInvoke]_vars

(***************************************************************************)
(* llm_tools.py: extract_and_run_tools.  A message is taken as what the    *)
(* regular expression finds in it: no call at all, or a first call with    *)
(* the name of the called function and its argument expressions; the text  *)
(* of the call may be one that ast.parse rejects.  A result string is the  *)
(* record of its fixed text and of the values formatted into it.           *)
(***************************************************************************)
\* the tools of the example of llm_tools.main, by the number of parameters
\* their signatures bind
ToolsDict == [multiply |-> 2, mine_block |-> 0]

\* the function names a message may call, and the argument expressions it
\* may pass: two constants and a name, which is not a constant
CalledNames == DOMAIN ToolsDict \cup {"unknown"}
ArgConstant(value) == [kind |-> "Constant", value |-> value]
ArgName == [kind |-> "Name", value |-> 0]
ArgExprs == {ArgConstant(1), ArgConstant(2), ArgName}

\* a result string: its text, and the function name, the arguments and the
\* result formatted into it
Output(text, func_name, args, result) ==
    [text |-> text, func_name |-> func_name, args |-> args, result |-> result]
EmptyOutput == Output("", "", <<>>, <<>>)

NoCall == <<>>
ToolCall(func_name, args, parses) == [func_name |-> func_name, args |-> args, parses |-> parses]

\* the constants among the argument expressions, in order
RECURSIVE ConstantArgs(_)
ConstantArgs(args) ==
    IF args = <<>> THEN <<>>
    ELSE (IF args[1].kind = "Constant" THEN <<args[1].value>> ELSE <<>>)
            \o ConstantArgs(Tail(args))

\* parse_python_code: the calls of the functions in valid_functions, with
\* their constant arguments
ParsePythonCode(code, valid_functions) ==
    IF code.func_name \in valid_functions
    THEN <<[func_name |-> code.func_name, args |-> ConstantArgs(code.args)]>>
    ELSE <<>>

\* verify_function_call: tool.signature.bind(*args)
VerifyFunctionCall(func_name, args) == Len(args) = ToolsDict[func_name]

\* execute_function_call, as str(...)
ExecuteFunctionCall(func_name, args) ==
    IF func_name = "multiply" THEN Some(args[1] * args[2]) ELSE None_

\* "\n".join(outputs) for at most one output
JoinLines(outputs) == IF outputs = <<>> THEN EmptyOutput ELSE outputs[1]

\* execute_tools: the first parsed call only
ExecuteTools(parsed_code, tools_dict) ==
    JoinLines(
        IF parsed_code = <<>> THEN <<>>
        ELSE LET func_name == parsed_code[1].func_name
                 args == parsed_code[1].args
             IN  IF func_name \in DOMAIN tools_dict
                 THEN IF VerifyFunctionCall(func_name, args)
                      THEN <<Output(" -> ", func_name, args,
                                    ExecuteFunctionCall(func_name, args))>>
                      ELSE <<Output("Invalid arguments for function", func_name, args, None_)>>
                 ELSE <<Output("is not a valid tool", func_name, <<>>, None_)>>)

ToolReturn(call, value) == [call |-> call, exc |-> "none", value |-> value]
ToolRaise(call, exc) == [call |-> call, exc |-> exc, value |-> EmptyOutput]

\* extract_and_run_tools(message, tools)
ExtractAndRunTools ==
    /\ tool_out = <<>>
    /\ tool_out' =
        IF tool_message = NoCall
        THEN ToolReturn("extract_and_run_tools",
                        Output("No tools found in the message.", "", <<>>, None_))
        ELSE IF ~tool_message.parses
        THEN ToolRaise("extract_and_run_tools", "SyntaxError")
        ELSE ToolReturn("extract_and_run_tools",
                        JoinLines(<<ExecuteTools(ParsePythonCode(tool_message, DOMAIN ToolsDict),
                                                 ToolsDict)>>))
    /\ UNCHANGED tool_message

\* execute_tools called with the call itself as its parsed code
ExecuteToolsAlone ==
    /\ tool_out = <<>>
    /\ tool_message # NoCall
    /\ tool_message.parses
    /\ tool_out' = ToolReturn("execute_tools",
                        ExecuteTools(<<[func_name |-> tool_message.func_name,
                                        args |-> ConstantArgs(tool_message.args)]>>,
                                     ToolsDict))
    /\ UNCHANGED tool_message

\* any message: no call, or a first call of up to MaxArgs argument expressions
InitTools ==
    /\ InitHistory
    /\ InitBus
    /\ InitCallers({})
    /\ threads = <<>>
    /\ step = NoStep
    /\ NoLoop
    /\ sm = <<>>
    /\ table_op = <<>>
    /\ \/ tool_message = NoCall
       \/ \E func_name \in CalledNames, n \in 0..MaxArgs, parses \in BOOLEAN :
            \E args \in [1..n -> ArgExprs] :
                tool_message = ToolCall(func_name, args, parses)
    /\ tool_out = <<>>

NextTools ==
    \/ /\ ExtractAndRunTools
       /\ UNCHANGED <<histVars, busVars, agentVars, run_log, executed, main_pc, stopped, sm, table_op>>
    \/ /\ ExecuteToolsAlone
       /\ UNCHANGED <<histVars, busVars, agentVars, run_log, executed, main_pc, stopped, sm, table_op>>

SpecTools == InitTools /\ [][NextTools]_vars

(***************************************************************************)
(* The errors of MessageHistory side by side: rollback and commit without  *)
(* an open transaction, and view on transcripts of every shape.            *)
(***************************************************************************)
\* the roles the transcripts are drawn from: the three the API knows and the
\* name of an agent
ErrorRoles == {SYSTEM, USER, ASSISTANT, AgentA}

\* any transcript of at most MaxErrorLen messages with roles of ErrorRoles
InitErrors ==
    /\ \E n \in 0..MaxErrorLen :
         \E roles \in [1..n -> ErrorRoles] :
            /\ heap = [i \in 1..n |-> Message(roles[i], ContentAt(i))]
            /\ history = [i \in 1..n |-> i]
    /\ history_stack = <<>>
    /\ saved = <<>>
    /\ op = [name |-> "init", exc |-> "none", msg |-> "", depth |-> 0]
    /\ view_out = NoView
    /\ InitBus
    /\ InitCallers({})
    /\ NoAgents

NextErrors ==
    \/ /\ Len(history_stack) < MaxDepth
       /\ StartTransaction
       /\ UNCHANGED <<busVars, agentVars, loopVars>>
    \/ /\ Rollback
       /\ UNCHANGED <<busVars, agentVars, loopVars>>
    \/ /\ Commit
       /\ UNCHANGED <<busVars, agentVars, loopVars>>
    \/ /\ \E agent \in ViewAgents : View(agent)
       /\ UNCHANGED <<busVars, agentVars, loopVars>>

SpecErrors == InitErrors /\ [][NextErrors]_vars

(***************************************************************************)
(* Transactions: C1 - C4.                                                  *)
(***************************************************************************)

\* C1: under add, start_transaction and rollback, the live sequence right
\* after a rollback() is, role for role and content for content, the live
\* sequence at the matching start_transaction() (the newest open one, so
\* nested rollbacks restore last in, first out), and the snapshot stack is one
\* shorter.
C1_RollbackRestores ==
    [][(op'.name = "rollback" /\ op'.exc = "none") =>
            /\ saved # <<>>
            /\ LiveValues' = saved[Len(saved)]
            /\ Len(history_stack') = Len(history_stack) - 1]_vars

\* an inner rollback has restored a live sequence that differs from the outer
\* snapshot still on the stack
C1_Witness ==
    /\ op.name = "rollback" /\ op.exc = "none" /\ op.depth = 2
    /\ Len(history_stack) = 1
    /\ history # <<>>
    /\ LiveValues # Deref(heap, history_stack[1])

\* C2: no later add, clear_all_but_system or set_last_role changes the role or
\* content of a message of a saved snapshot: every snapshot on the stack still
\* denotes the roles and contents the live sequence had when it was pushed.
C2_SnapshotIndependent ==
    \A k \in 1..Len(history_stack) : Deref(heap, history_stack[k]) = saved[k]

\* C3: commit() with an open transaction raises nothing, leaves the live
\* sequence as it is and empties the whole snapshot stack, whatever its depth;
\* a rollback() issued right after it fails.
C3_CommitKeepsLiveEmptiesStack ==
    [][/\ (op'.name = "commit" /\ history_stack # <<>>) =>
            /\ op'.exc = "none"
            /\ LiveValues' = LiveValues
            /\ history_stack' = <<>>
       /\ (op.name = "commit" /\ op.exc = "none" /\ op'.name = "rollback") =>
            /\ op'.exc = "ValueError"
            /\ LiveValues' = LiveValues]_vars

\* a commit that found two nested transactions open over a non-empty history
C3_Witness ==
    /\ op.name = "commit" /\ op.exc = "none" /\ op.depth = 2
    /\ history # <<>>
    /\ history_stack = <<>>

\* C4: rollback() and commit() on an empty snapshot stack raise, and leave the
\* live sequence, its messages and the empty stack as they were.
C4_NoTransactionFails ==
    [][(op'.name \in {"rollback", "commit"} /\ history_stack = <<>>) =>
            /\ op'.exc = "ValueError"
            /\ history' = history
            /\ heap' = heap
            /\ history_stack' = <<>>]_vars

\* a commit that failed on an empty stack over a non-empty history
C4_Witness ==
    /\ op.name = "commit" /\ op.exc = "ValueError" /\ op.depth = 0
    /\ history # <<>>

(***************************************************************************)
(* Projection: C5 - C10.                                                   *)
(***************************************************************************)
\* a view(agent) call with an agent has run on a non-empty transcript
ViewedForAgent == op.name = "view" /\ view_out.agent # NoAgent /\ history # <<>>

\* the preamble of an agent other than the requesting one
OtherPreamble(role, agent) == StartsWith(role, SYSTEM_) /\ role # SYSTEM_ \o agent

\* the entries of the transcript that are not another agent's preamble, and
\* the place of the i-th entry among them
KeptIdx(messages, agent) ==
    {i \in 1..Len(messages) : ~OtherPreamble(messages[i].role, agent)}

PlaceOf(messages, agent, i) == Cardinality({j \in KeptIdx(messages, agent) : j <= i})

\* C5: projecting for agent A keeps, in order, exactly the entries that are
\* not another agent's "system_*" preamble; among them A's own entries become
\* "assistant", "system" stays "system" and "system_A" becomes "system", each
\* with its content unchanged.
C5_Retag ==
    ViewedForAgent =>
        LET m == LiveValues
            a == view_out.agent
            r == view_out.renamed
        IN /\ Len(r) = Cardinality(KeptIdx(m, a))
           /\ \A i \in KeptIdx(m, a) :
                LET e == r[PlaceOf(m, a, i)]
                IN /\ m[i].role = a => e = Message(ASSISTANT, m[i].content)
                   /\ m[i].role = SYSTEM => e = Message(SYSTEM, m[i].content)
                   /\ m[i].role = SYSTEM_ \o a => e = Message(SYSTEM, m[i].content)

\* a projection for agentB of a transcript that holds an entry of agentB, a
\* "system" entry, agentB's preamble and agentA's preamble
C5_Witness ==
    /\ ViewedForAgent
    /\ view_out.agent = AgentB
    /\ {AgentB, SYSTEM, SYSTEM_ \o AgentA, SYSTEM_ \o AgentB}
            \subseteq {LiveValues[i].role : i \in 1..Len(history)}
    /\ Len(view_out.renamed) < Len(history)

RunStarts(r) == {i \in 1..Len(r) : i = 1 \/ r[i].role # r[i - 1].role}

RunEnd(r, i) ==
    CHOOSE j \in i..Len(r) :
        /\ \A k \in i..j : r[k].role = r[i].role
        /\ j = Len(r) \/ r[j + 1].role # r[i].role

\* the contents of entries i..j joined by newlines, in order
RECURSIVE JoinContents(_, _, _)
JoinContents(r, i, j) ==
    IF i = j THEN r[i].content
    ELSE r[i].content \o <<"\n">> \o JoinContents(r, i + 1, j)

\* one entry per maximal run: the run's role, its contents joined
RunsJoined(r) ==
    [k \in 1..Cardinality(RunStarts(r)) |->
        LET i == CHOOSE s \in RunStarts(r) : Cardinality({t \in RunStarts(r) : t <= s}) = k
        IN Message(r[i].role, JoinContents(r, i, RunEnd(r, i)))]

\* the transcript holds only "system" entries and entries of participants
OnlyParticipants == \A i \in 1..Len(history) : LiveValues[i].role \in {SYSTEM, AgentA, AgentB}

\* the entries of a transcript of participants as C7 describes them: the
\* requesting agent's as "assistant", the others' as "user", contents unchanged
C7_Described(messages, agent) ==
    [i \in 1..Len(messages) |->
        IF messages[i].role = agent THEN Message(ASSISTANT, messages[i].content)
        ELSE IF messages[i].role = SYSTEM THEN messages[i]
        ELSE Message(USER, messages[i].content)]

\* C7: to_api_format(agent=A) on a transcript whose entries carry participant
\* names as roles returns the other participants' messages with role "user"
\* and their original content unchanged (adjacent ones joined by a newline),
\* and A's messages with role "assistant" and original content.
C7_OthersContentUnchanged ==
    (ViewedForAgent /\ OnlyParticipants /\ op.exc = "none") =>
        view_out.value = RunsJoined(C7_Described(LiveValues, view_out.agent))

Roles(messages) == [i \in 1..Len(messages) |-> messages[i].role]

\* the transcript of C8, projected for agentB
C8_Scenario ==
    /\ op.name = "view"
    /\ view_out.agent = AgentB
    /\ Roles(LiveValues) = <<SYSTEM, USER, AgentA, AgentB, AgentA>>

C9_RunsMerged ==
    (op.name = "view" /\ op.exc = "none") =>
        /\ \A i \in 1..(Len(view_out.value) - 1) :
                view_out.value[i].role # view_out.value[i + 1].role
        /\ view_out.value = RunsJoined(view_out.renamed)

\* a successful projection that merged a run of three entries and another run
C9_Witness ==
    /\ op.name = "view" /\ op.exc = "none"
    /\ Len(view_out.renamed) >= Len(view_out.value) + 3
    /\ \E i \in 1..(Len(view_out.renamed) - 2) :
            /\ view_out.renamed[i].role = view_out.renamed[i + 1].role
            /\ view_out.renamed[i].role = view_out.renamed[i + 2].role

\* first entry "system", last entry "user", and the entries strictly between
\* alternate "user", "assistant", ... from the second entry on
WellFormed(entries) ==
    /\ entries # <<>>
    /\ entries[1].role = SYSTEM
    /\ entries[Len(entries)].role = USER
    /\ \A p \in 2..(Len(entries) - 1) :
            entries[p].role = IF p % 2 = 0 THEN USER ELSE ASSISTANT

\* C10: view/to_api_format returns a list only if that list is well formed,
\* and raises whenever the renamed and merged transcript is not (also when
\* every entry was dropped).
C10_ValidatedOrRaises ==
    op.name = "view" =>
        /\ op.exc = "none" => WellFormed(view_out.value)
        /\ ~WellFormed(RunsJoined(view_out.renamed)) =>
                (op.exc = "ValueError" /\ view_out.value = <<>>)

\* a projection for an agent that raised because every entry of a non-empty
\* transcript was dropped
C10_Witness ==
    /\ ViewedForAgent
    /\ view_out.renamed = <<>>
    /\ op.exc = "ValueError"

(***************************************************************************)
(* Projection without an agent, and reads of an empty history: C11 - C12.  *)
(***************************************************************************)
ApiRoles == {SYSTEM, USER, ASSISTANT}

\* C11: a projection made without an agent re-tags nothing and rewrites no
\* content: the list it merges is the live sequence itself and the list it
\* returns is that sequence with every run of equal roles joined; and it
\* raises whenever some entry's role is not "system", "user" or "assistant".
C11_NoAgentOnlyMerges ==
    (op.name = "view" /\ view_out.agent = NoAgent /\ history # <<>>) =>
        /\ view_out.renamed = LiveValues
        /\ op.exc = "none" => view_out.value = RunsJoined(LiveValues)
        /\ (\E i \in 1..Len(history) : LiveValues[i].role \notin ApiRoles) =>
                (op.exc = "ValueError" /\ view_out.value = <<>>)

\* a projection without an agent that merged two adjacent user entries and
\* returned a list
C11_Witness ==
    /\ op.name = "view" /\ op.exc = "none"
    /\ view_out.agent = NoAgent
    /\ Len(view_out.value) >= 3
    /\ Len(view_out.value) < Len(history)

\* a projection without an agent that met a participant's role and raised
C11_WitnessInvalidRole ==
    /\ op.name = "view" /\ op.exc = "ValueError"
    /\ view_out.agent = NoAgent
    /\ op.msg = "Invalid role in message. Pass in agent to merge messages."

\* C12: last(), last_role(), set_last_role() and view()/to_api_format(),
\* called on an empty live sequence, raise, and leave the live sequence, the
\* snapshot stack and every message object as they were.
C12_EmptyReadsFail ==
    [][(op'.name \in {"last", "last_role", "set_last_role", "view"} /\ history = <<>>) =>
            /\ op'.exc = "ValueError"
            /\ op'.msg = "Message history is empty."
            /\ UNCHANGED <<heap, history, history_stack>>]_vars

\* last_role() raised on an empty live sequence inside two open transactions
C12_Witness ==
    /\ op.name = "last_role" /\ op.exc = "ValueError"
    /\ history = <<>>
    /\ Len(history_stack) = 2

(***************************************************************************)
(* The bus: C16 - C20.                                                     *)
(***************************************************************************)
\* the mailbox of a registered name: the items queued for it
Mailbox(aq, qs, n) == qs[aq[n]].items

\* the mailboxes of the names in ns are the same objects with the same items
\* before and after the step
MailboxesKept(ns) ==
    \A n \in ns :
        /\ n \in DOMAIN agent_queues'
        /\ agent_queues'[n] = agent_queues[n]
        /\ queues'[agent_queues[n]] = queues[agent_queues[n]]

\* C16: send_message to a name that is not registered returns normally,
\* opens no mailbox and changes neither any existing mailbox nor the agent
\* map nor the resource map.
C16_SendToUnknownIsNoOp ==
    [][(bus_op'.name = "send_message" /\ bus_op'.arg \notin DOMAIN agent_queues) =>
            /\ bus_op'.ret = None_ /\ bus_op'.log = NoLog
            /\ DOMAIN agent_queues' = DOMAIN agent_queues
            /\ MailboxesKept(DOMAIN agent_queues)
            /\ queues' = queues
            /\ UNCHANGED <<agents, resources>>]_vars

\* a send to a name without a mailbox has returned while the other name's
\* mailbox holds a message and the resource map holds a resource
C16_Witness ==
    /\ bus_op.name = "send_message"
    /\ bus_op.arg \notin DOMAIN agent_queues
    /\ \E n \in DOMAIN agent_queues : Mailbox(agent_queues, queues, n) # <<>>
    /\ DOMAIN resources # {}

\* C17: what has been got out of a Queue object, followed by what is still
\* queued in it, is what was put into it, in the order of the send_message
\* calls: every message comes out once, in the order it went in.
C17_Fifo ==
    \A q \in DOMAIN queues : queues[q].put = queues[q].got \o queues[q].items

\* two different messages were received for one name
C17_Witness ==
    \E q \in DOMAIN queues :
        /\ Len(queues[q].got) = 2
        /\ queues[q].got[1] # queues[q].got[2]
        /\ bus_op.name = "receive_message" /\ bus_op.ret = Some(queues[q].got[2])

\* C18: register_agent of an absent name adds a new empty mailbox and the
\* handle; register_agent of a registered name keeps the first handle, the
\* mailbox object and its queued messages. Other names are untouched.
C18_RegisterOnlyIfAbsent ==
    [][bus_op'.name = "register_agent" =>
            LET n == bus_op'.arg
            IN /\ MailboxesKept(DOMAIN agent_queues)
               /\ \A m \in DOMAIN agents : m \in DOMAIN agents' /\ agents'[m] = agents[m]
               /\ DOMAIN agent_queues' = DOMAIN agent_queues \cup {n}
               /\ DOMAIN agents' = DOMAIN agents \cup {n}
               /\ n \notin DOMAIN agent_queues =>
                    /\ agent_queues'[n] \notin DOMAIN queues
                    /\ queues'[agent_queues'[n]] = NewQueue
                    /\ agents'[n] \in BusAgents
               /\ UNCHANGED resources]_vars

\* register_agent has returned for a name whose mailbox holds a message: the
\* name was registered before the call
C18_Witness ==
    /\ bus_op.name = "register_agent"
    /\ bus_op.arg \in DOMAIN agent_queues
    /\ Mailbox(agent_queues, queues, bus_op.arg) # <<>>

\* C19: unregister_agent of a registered name removes its mailbox and its
\* handle, whatever is queued; of an absent name it changes nothing; the
\* other names' mailboxes and handles and the resource map stay as they are.
C19_UnregisterRemovesBoth ==
    [][bus_op'.name = "unregister_agent" =>
            LET n == bus_op'.arg
            IN /\ bus_op'.ret = None_ /\ bus_op'.log = NoLog
               /\ DOMAIN agent_queues' = DOMAIN agent_queues \ {n}
               /\ DOMAIN agents' = DOMAIN agents \ {n}
               /\ MailboxesKept(DOMAIN agent_queues \ {n})
               /\ \A m \in DOMAIN agents \ {n} : agents'[m] = agents[m]
               /\ UNCHANGED resources]_vars

\* unregister_agent has removed a name whose mailbox held a message (a thread
\* inside receive_message still holds the Queue object), while the other
\* name keeps a mailbox with a message
C19_Witness ==
    /\ bus_op.name = "unregister_agent"
    /\ bus_op.arg \notin DOMAIN agent_queues
    /\ \E t \in DOMAIN receivers :
            /\ receivers[t] # NotReceiving
            /\ receivers[t][1].arg = bus_op.arg
            /\ queues[receivers[t][1].q].items # <<>>
    /\ \E n \in DOMAIN agent_queues : Mailbox(agent_queues, queues, n) # <<>>

\* the step is a receive_message call that found no mailbox for its name
UnknownNameReceive ==
    /\ bus_op'.name = "receive_message"
    /\ receivers' = receivers

\* the step is a return from the wait of receive_message
WaitReturn(t) ==
    /\ bus_op'.name = "receive_message"
    /\ receivers[t] # NotReceiving
    /\ receivers'[t] = NotReceiving

\* C20: receive_message for an unregistered name returns None at once,
\* without waiting, and logs a warning; a wait returns None when the timeout
\* elapses on an empty queue, and logs nothing; a receive_message that
\* returns None changes no mailbox.
C20_NoneOnUnknownOrTimeout ==
    [][bus_op'.name = "receive_message" =>
            /\ (bus_op'.arg \notin DOMAIN agent_queues /\ \A t \in DOMAIN receivers : ~WaitReturn(t)) =>
                    /\ UnknownNameReceive
                    /\ bus_op'.phase = "return" /\ bus_op'.ret = None_
                    /\ bus_op'.log = "WARNING"
            /\ \A t \in DOMAIN receivers :
                    (WaitReturn(t) /\ queues[receivers[t][1].q].items = <<>>) =>
                        /\ receivers[t][1].timeout # None_
                        /\ bus_op'.ret = None_ /\ bus_op'.log = NoLog
            /\ (bus_op'.phase = "return" /\ bus_op'.ret = None_) =>
                    /\ UNCHANGED <<agent_queues, agents, resources>>
                    /\ MailboxesKept(DOMAIN agent_queues)
                    /\ \/ UnknownNameReceive /\ bus_op'.arg \notin DOMAIN agent_queues
                       \/ \E t \in DOMAIN receivers :
                            WaitReturn(t) /\ queues[receivers[t][1].q].items = <<>>]_vars

\* a wait on the empty mailbox of a registered name has timed out
C20_Witness ==
    /\ bus_op.name = "receive_message" /\ bus_op.phase = "return"
    /\ bus_op.ret = None_ /\ bus_op.log = NoLog
    /\ bus_op.arg \in DOMAIN agent_queues

\* a receive_message for an unregistered name has returned None and logged
C20_WitnessUnknown ==
    /\ bus_op.name = "receive_message" /\ bus_op.phase = "return"
    /\ bus_op.ret = None_ /\ bus_op.log = "WARNING"
    /\ bus_op.arg \notin DOMAIN agent_queues

(***************************************************************************)
(* Turn-taking on the shared history: C13 - C15.                           *)
(***************************************************************************)
\* the agent is in the state function that polls its mailbox, between two calls
Parked(a) ==
    /\ threads[a].pc = "top"
    /\ threads[a].running
    /\ threads[a].state = PollState(threads[a].cls)

\* the agent has dequeued an activation message and has not sent its reply:
\* it is inside the call of the model, or its thread ended there, or it is
\* about to run the state function that the polling one returned
Active(a) ==
    \/ threads[a].pc \in {"work", "crashed", "exited"}
    \/ threads[a].state # PollState(threads[a].cls)

NonRouter == DOMAIN threads \ {ROUTER}

ActiveAgents == {a \in NonRouter : Active(a)}

\* the agents with a message waiting in their mailbox
Pending == {a \in NonRouter : Mailbox(agent_queues, queues, a) # <<>>}

\* C13 as stated: at most one non-router agent is between dequeuing its
\* activation message and sending its reply, and every other non-router
\* agent is parked in its receive with an empty mailbox.
C13_OthersMailboxEmpty ==
    /\ Cardinality(ActiveAgents) <= 1
    /\ \A a \in NonRouter \ ActiveAgents :
            Parked(a) /\ Mailbox(agent_queues, queues, a) = <<>>

\* C13, amended: at most one non-router agent is between dequeuing its
\* activation message and sending its reply, and every other non-router
\* agent is parked in its receive; the mailboxes of the non-router agents are
\* empty, except that while no agent is active one parked agent may hold the
\* single activation message the router has sent and it has not yet dequeued.
C13_SingleWriter ==
    /\ Cardinality(ActiveAgents) <= 1
    /\ \A a \in NonRouter \ ActiveAgents : Parked(a)
    /\ Cardinality(Pending) <= 1
    /\ \A a \in Pending : Len(Mailbox(agent_queues, queues, a)) = 1
    /\ Pending # {} => ActiveAgents = {}

\* the mover is inside its transaction, waiting for the model, after the
\* mastermind and the critic have written their turns
C13_Witness ==
    /\ MOVER \in DOMAIN threads
    /\ threads[MOVER].pc = "work"
    /\ Len(history_stack) = 1
    /\ ActiveAgents = {MOVER}

\* the agent is executing, or about to execute, chat or plan_complete
Executing(a) ==
    /\ threads[a].state \in {"chat", "plan_complete"}
    /\ threads[a].pc \in {"top", "work"}

RECURSIVE Undelivered(_)
Undelivered(qs) ==
    IF qs = {} THEN 0
    ELSE LET q == CHOOSE x \in qs : TRUE
         IN Len(queues[q].items) + Undelivered(qs \ {q})

\* C14: in the relay topology the agents executing a chat or plan_complete
\* step and the undelivered messages in all the mailboxes number at most one
\* together, so at most one agent is inside a step that writes the history.
C14_OneToken ==
    /\ Cardinality({a \in DOMAIN threads : Executing(a)}) + Undelivered(DOMAIN queues) <= 1
    /\ Cardinality({a \in DOMAIN threads : threads[a].pc = "work"}) <= 1

\* the actor is inside chat, waiting for the model, once the critic has
\* approved the plan
C14_Witness ==
    /\ ACTOR \in DOMAIN threads
    /\ threads[ACTOR].pc = "work"
    /\ threads[CRITIC].planning_complete

\* an agent has detected its termination sentinel and called exit()
SentinelDetected == \E a \in DOMAIN threads : threads[a].pc = "exited"

\* C15: once an agent has detected the termination sentinel, no agent
\* executes a further state step and none changes the shared history.
C15_RunHalts ==
    [][SentinelDetected =>
            /\ step' = step
            /\ UNCHANGED <<heap, history, history_stack>>]_vars

\* once an agent has detected the termination sentinel, the shared history
\* is not changed any more
C15_HistoryFrozen ==
    [][SentinelDetected => UNCHANGED <<heap, history, history_stack>>]_vars

\* the actor has called exit() and another agent has since polled its mailbox
C15_StepAfterExit ==
    /\ SentinelDetected
    /\ step.agent # ACTOR

(***************************************************************************)
(* The bus mutex and the blocking wait: C21.                               *)
(***************************************************************************)
\* a thread is inside agent_queue.get of receive_message
Waiting(t) == receivers[t] # NotReceiving

\* every bus call of thread u can take the mutex and return in this state
CanCall(u) ==
    /\ \A n \in BusNames, ag \in BusAgents : ENABLED RegisterAgent(u, n, ag)
    /\ \A n \in BusNames : ENABLED UnregisterAgent(u, n)
    /\ \A n \in BusNames, m \in BusMessages : ENABLED SendMessage(u, n, m)
    /\ \A r \in BusResources, v \in BusValues : ENABLED AddResource(u, r, v)
    /\ \A r \in BusResources : ENABLED GetResource(u, r)

\* C21: no thread holds the mutex of the bus while it waits on a mailbox:
\* whenever a thread is waiting inside receive_message the mutex is free, and
\* register_agent, unregister_agent, send_message, add_resource and
\* get_resource of every other thread can acquire it and return
C21_WaitOutsideLock ==
    \A t \in DOMAIN receivers :
        Waiting(t) =>
            /\ lock = None_
            /\ \A u \in DOMAIN receivers \ {t} : ~Waiting(u) => CanCall(u)

\* a thread waits on an empty mailbox and a call of the other thread has
\* returned since the wait began
C21_Witness ==
    /\ Waiting("t1")
    /\ queues[receivers["t1"][1].q].items = <<>>
    /\ ~Waiting("t2")
    /\ bus_op.name = "add_resource"
    /\ bus_op.phase = "return"


(***************************************************************************)
(* The loop of ThreadedAgent.run: C22 - C24, C26, C28.                     *)
(***************************************************************************)
\* stop() of the agent has returned
Stopped(a) == stopped[a] # None_

\* C22: stop() clears self.running and unregisters the agent, and changes
\* nothing else of the thread: a state function in progress when stop() is
\* called runs to its end (or raises), the loop is left at its next test of
\* the flag, the loop calls at most one more state function after stop() has
\* returned, and the thread ends when the state functions it calls end
C22_CooperativeStop ==
    /\ [](\A a \in DOMAIN threads :
            Stopped(a) =>
                /\ ~threads[a].running
                /\ a \notin DOMAIN agent_queues
                /\ a \notin DOMAIN agents
                /\ Len(executed[a]) <= stopped[a][1] + 1)
    /\ [][\A a \in DOMAIN threads :
            /\ main_pc' # main_pc =>
                    /\ threads'[a].pc = threads[a].pc
                    /\ threads'[a].state = threads[a].state
                    /\ executed'[a] = executed[a]
            /\ (threads[a].pc = "work" /\ threads'[a].pc # "work") =>
                    threads'[a].pc \in {"top", "crashed"}
            /\ (threads[a].pc = "top" /\ threads'[a].pc # "top") =>
                    threads'[a].pc = IF threads[a].running THEN "iter" ELSE "ended"]_vars
    /\ \A a \in {MOTOR, REASONING} : Stopped(a) ~> Terminated(a)

\* stop() has returned and the state function that the agent had begun
\* before is still in progress
C22_Witness ==
    /\ Stopped(MOTOR)
    /\ Len(executed[MOTOR]) = stopped[MOTOR][1]
    /\ threads[MOTOR].state = "execution"
    /\ threads[MOTOR].pc = "work"

\* the loop called one more state function after stop() had returned, that
\* state function has run to its end, and the thread has left the loop
C22_WitnessOneMore ==
    \E a \in DOMAIN threads :
        /\ Stopped(a)
        /\ Len(executed[a]) = stopped[a][1] + 1
        /\ threads[a].pc = "ended"

\* C23: in every iteration the loop calls one state function, lets it run
\* to its end and then stores the value it returned as the state, whatever
\* that value is; a state function is called only when none is in progress,
\* and it is the stored state that is called, so a state function that
\* returned itself is called again
C23_AdoptsReturned ==
    [][\A a \in DOMAIN threads :
            /\ (threads[a].pc = "work" /\ threads'[a].pc = "top") =>
                    /\ step'[a].state = threads[a].state
                    /\ threads'[a].state = step'[a].ret
            /\ executed'[a] # executed[a] =>
                    /\ threads[a].pc = "iter"
                    /\ threads'[a].pc = "work"
                    /\ executed'[a] = Append(executed[a], threads[a].state)
            /\ threads'[a].state # threads[a].state => threads[a].pc = "work"]_vars

\* a state function returned itself and was called again, then returned
\* another state function, which was called next
C23_Witness ==
    \E a \in DOMAIN threads :
        /\ Len(executed[a]) >= 3
        /\ executed[a][1] = executed[a][2]
        /\ executed[a][2] # executed[a][3]

\* the sequence without the entries that repeat the entry before them
RECURSIVE Dedup(_)
Dedup(seq) ==
    IF Len(seq) <= 1 THEN seq
    ELSE IF seq[Len(seq)] = seq[Len(seq) - 1]
         THEN Dedup(SubSeq(seq, 1, Len(seq) - 1))
         ELSE Append(Dedup(SubSeq(seq, 1, Len(seq) - 1)), seq[Len(seq)])

\* the states the "Entered state" reports of a log name, in order
RECURSIVE Reports(_)
Reports(lg) ==
    IF lg = <<>> THEN <<>>
    ELSE IF Head(lg).level = "INFO"
         THEN <<Head(lg).entered>> \o Reports(Tail(lg))
         ELSE Reports(Tail(lg))

\* C24: the loop reports "Entered state" in an iteration exactly when the
\* state function it is about to call is not the one it called in the
\* iteration before (or it is the first iteration): the reports of an agent
\* are the state functions it called with the repetitions left out
C24_ReportsAreChanges ==
    \A a \in DOMAIN threads : Reports(run_log[a]) = Dedup(executed[a])

\* an agent polled its empty mailbox more than once and went on later
C24_Witness ==
    \E a \in DOMAIN threads :
        /\ Len(executed[a]) >= 4
        /\ Len(Reports(run_log[a])) >= 3
        /\ Len(Reports(run_log[a])) < Len(executed[a])

\* C26: when the state function of an agent raises, the loop of that agent
\* logs the error and the thread ends, calling no state function again; the
\* thread of every other agent is left as it is and can go on
C26_FailureStaysLocal ==
    /\ [](\A a, b \in DOMAIN threads :
            (threads[a].pc = "crashed" /\ b # a /\ ~Terminated(b)) =>
                ENABLED (LoopTest(b) \/ Enter(b) \/ \E c \in PairReplies : StepReturn(b, c)))
    /\ [][\A a \in DOMAIN threads :
            /\ (threads'[a].pc = "crashed" /\ threads[a].pc # "crashed") =>
                    /\ threads[a].pc = "work"
                    /\ run_log'[a] = Append(run_log[a], Caught)
                    /\ \A b \in DOMAIN threads \ {a} : threads'[b] = threads[b]
                    /\ UNCHANGED <<busVars, main_pc>>
            /\ threads[a].pc = "crashed" =>
                    /\ threads'[a].pc = "crashed"
                    /\ threads'[a].state = threads[a].state
                    /\ executed'[a] = executed[a]
                    /\ run_log'[a] = run_log[a]]_vars

\* the thread of one agent ended on an error and the other agent is inside
\* a state function
C26_Witness ==
    /\ threads[MOTOR].pc = "crashed"
    /\ run_log[MOTOR][Len(run_log[MOTOR])] = Caught
    /\ threads[REASONING].pc = "work"
    /\ threads[REASONING].running

\* how often the agent has run the state function to its end
Completed(a, state) ==
    Cardinality({k \in 1..Len(executed[a]) : executed[a][k] = state})
        - IF threads[a].pc \in {"work", "crashed"} /\ threads[a].state = state THEN 1 ELSE 0

\* the round trips made: the answers the ReasoningAgent has received
RoundTrips == Completed(REASONING, "request_goal") - 1

\* main has not called stop() yet
Sleeping == main_pc = MainAt("stop", 1)

\* C28: the two agents exchange plans and answers through their mailboxes
\* until main stops them, and then both threads end; until main calls
\* stop(), every plan and every answer sent was put into the mailbox of its
\* addressee and was received or is still queued there, and when a round
\* trip is complete no message is queued
C28_PingPongTerminates ==
    /\ <>(\A a \in DOMAIN threads : Terminated(a))
    /\ [](Sleeping =>
            LET plans == queues[agent_queues[MOTOR]]
                answers == queues[agent_queues[REASONING]]
            IN /\ Len(plans.put) = Completed(REASONING, "planning")
               /\ Len(answers.put) = Completed(MOTOR, "done_or_error")
               /\ plans.put = plans.got \o plans.items
               /\ answers.put = answers.got \o answers.items
               /\ Len(plans.items) + Len(answers.items) <= 1
               /\ (threads[REASONING].state = "request_goal" /\ threads[REASONING].pc # "work") =>
                        (plans.items = <<>> /\ answers.items = <<>>
                            /\ Len(answers.got) = Len(plans.got)))

\* two round trips were made before main stopped the agents, and both
\* threads have left their loops
C28_Witness ==
    /\ main_pc.at = "shutdown"
    /\ \A a \in DOMAIN threads : threads[a].pc = "ended"
    /\ Completed(MOTOR, "done_or_error") = 2
    /\ Completed(REASONING, "waiting_for_motor") >= 2
    /\ threads[REASONING].state = "request_goal"

(***************************************************************************)
(* The table-driven StateMachine of mb2.py: C25.                           *)
(***************************************************************************)
\* the transitions registered for the current state, in registration order
Listed == IF sm.state \in DOMAIN sm.transitions THEN sm.transitions[sm.state] ELSE <<>>

\* C25: update() calls the conditions registered for the current state in
\* registration order, up to and including the first that holds and none
\* after it, and moves to the target registered with that one; when none
\* holds, or nothing is registered for the state, all of them (none) were
\* called and the state is unchanged
C25_FirstMatchInOrder ==
    [][table_op'.name = "update" =>
        LET ev == table_op'.evaluated
            held(k) == Holds(Listed[k].condition, table_op'.plan, table_op'.last)
            matches == {k \in 1..Len(Listed) : held(k)}
        IN  /\ sm'.transitions = sm.transitions
            /\ Len(ev) <= Len(Listed)
            /\ \A k \in 1..Len(ev) : ev[k] = Listed[k].condition
            /\ IF matches = {}
               THEN /\ Len(ev) = Len(Listed)
                    /\ sm'.state = sm.state
               ELSE /\ Len(ev) \in matches
                    /\ \A k \in matches : Len(ev) <= k
                    /\ sm'.state = Listed[Len(ev)].state_to]_vars

\* update() has taken the first of two transitions of "observation" that
\* both held, and has not called the condition of the second
C25_Witness ==
    /\ table_op.name = "update"
    /\ table_op.evaluated = <<"plan_complete_or_error">>
    /\ sm.state = "done_or_error"
    /\ "observation" \in DOMAIN sm.transitions
    /\ Len(sm.transitions["observation"]) >= 2

\* update() has called the only condition of "waiting_for_plan", which did
\* not hold, and has left the state as it was
C25_WitnessNoneHolds ==
    /\ table_op.name = "update"
    /\ table_op.plan = None_
    /\ table_op.evaluated = <<"plan_received">>
    /\ sm.state = "waiting_for_plan"

\* update() in a state for which nothing is registered
C25_WitnessNoTransitions ==
    /\ table_op.name = "update"
    /\ sm.state \notin DOMAIN sm.transitions
    /\ table_op.evaluated = <<>>

(***************************************************************************)
(* The router's round-robin: C27.                                          *)
(***************************************************************************)
\* how many messages were got out of the Queue objects qs
RECURSIVE GotCount(_)
GotCount(qs) ==
    IF qs = {} THEN 0
    ELSE LET q == CHOOSE x \in qs : TRUE
         IN Len(queues[q].got) + GotCount(qs \ {q})

\* the messages ever sent to a registered name
Sent(qs, aq, n) == qs[aq[n]].put

\* how many activations the router has sent, how many the agents have
\* dequeued, how many replies were sent to the router and how many of them
\* the router has received
Activations == PutCount({agent_queues[a] : a \in NonRouter})
Dequeued == GotCount({agent_queues[a] : a \in NonRouter})
Replies == Len(Sent(queues, agent_queues, ROUTER))
Received == Len(queues[agent_queues[ROUTER]].got)

\* the agent the k-th activation of a round-robin over Router.agents goes to
Turn(k) == RouterAgents[((k - 1) % Len(RouterAgents)) + 1]

SentinelClasses == {"Actor", "Watchdog"}

\* the agents that hold a sentinel, and those of them that were ever sent a
\* message
SentinelAgents == {a \in DOMAIN threads : threads[a].cls \in SentinelClasses}
SentinelActivated == {a \in SentinelAgents : Sent(queues, agent_queues, a) # <<>>}

\* C29 as stated, for the router topology that main wires: an agent whose
\* state function detects the sentinel is among the agents the router
\* activates, so that some execution comes to the detection
C29_SentinelOnRoster ==
    \E a \in SentinelAgents : a \in Range(RouterAgents)

\* C29, what the router topology does instead: no agent that holds a sentinel
\* is ever sent a message, the watchdog never leaves wait, and no execution
\* comes to a detection, whatever the model replies
C29_RouterNeverDetects ==
    /\ SentinelAgents = {WATCHDOG}
    /\ SentinelActivated = {}
    /\ threads[WATCHDOG].state = "wait"
    /\ threads[WATCHDOG].pc = "top"
    /\ ~SentinelDetected

\* the model has answered "11" to an agent of the roster, the second round
\* has begun, and the watchdog has never been sent a message
C29_Witness ==
    /\ \E i \in 1..Len(history) : Contains(heap[history[i]].content, ElevenMarker)
    /\ Len(Sent(queues, agent_queues, MASTERMIND)) = 2
    /\ Sent(queues, agent_queues, WATCHDOG) = <<>>
    /\ Parked(WATCHDOG)
    /\ ~SentinelDetected

(***************************************************************************)
(* LLMClient.invoke succeeds or raises as a whole: C30.                    *)
(***************************************************************************)
\* the snapshots of the open transactions, as messages
StackValues == [k \in 1..Len(history_stack) |-> Deref(heap, history_stack[k])]

\* C30: an invoke that returns has appended exactly one message, with role
\* "assistant", to the history it was given, has left the snapshots as they
\* were and returns that history; an invoke raises exactly when the
\* projection or the request raises, and then the live sequence and the
\* snapshot stack are what they were before the call
C30_InvokeAtomic ==
    [][op'.name = "invoke" =>
        LET before == LiveValues
            after == Deref(heap', history')
            stack_after == [k \in 1..Len(history_stack') |-> Deref(heap', history_stack'[k])]
        IN  /\ stack_after = StackValues
            /\ (ViewOf(before, view_out'.agent).msg # "") =>
                    /\ op'.exc = "ValueError"
                    /\ op'.msg = ViewOf(before, view_out'.agent).msg
            /\ IF op'.exc = "none"
               THEN /\ Len(after) = Len(before) + 1
                    /\ SubSeq(after, 1, Len(before)) = before
                    /\ after[Len(after)].role = ASSISTANT
                    /\ view_out'.value = after
               ELSE after = before]_vars

\* invoke has returned inside an open transaction: the reply is the last
\* message of the history and the snapshot is without it
C30_Witness ==
    /\ op.name = "invoke"
    /\ op.exc = "none"
    /\ history_stack # <<>>
    /\ LiveValues[Len(history)].role = ASSISTANT
    /\ Len(StackValues[1]) = Len(history) - 1

\* the request has raised on a history whose projection was well-formed
C30_WitnessRequestRaises ==
    /\ op.name = "invoke"
    /\ op.exc = "APIError"
    /\ history # <<>>

\* the projection has raised, so that no request was sent
C30_WitnessProjectionRaises ==
    /\ op.name = "invoke"
    /\ op.exc = "ValueError"
    /\ history_stack # <<>>

(***************************************************************************)
(* Tool calls that misuse a tool: C31.                                     *)
(***************************************************************************)
\* extract_and_run_tools has run on a message whose first call is well-formed
Ran ==
    /\ tool_out # <<>>
    /\ tool_out.call = "extract_and_run_tools"
    /\ tool_message # NoCall
    /\ tool_message.parses

\* the call names no tool, or its constant arguments do not bind
UnknownTool == tool_message.func_name \notin DOMAIN ToolsDict
BadArguments ==
    /\ ~UnknownTool
    /\ Len(ConstantArgs(tool_message.args)) # ToolsDict[tool_message.func_name]

\* C31 as stated: extract_and_run_tools on a call whose arguments do not
\* bind, or that names an unknown tool, raises nothing and returns a string
\* that is not empty
C31_MisuseDescribed ==
    (Ran /\ (UnknownTool \/ BadArguments)) =>
        /\ tool_out.exc = "none"
        /\ tool_out.value # EmptyOutput

\* C31, the half that holds: arguments that do not bind to the signature of
\* a known tool give "Invalid arguments for function ..." and no exception
C31_BadArgumentsDescribed ==
    (Ran /\ BadArguments) =>
        /\ tool_out.exc = "none"
        /\ tool_out.value = Output("Invalid arguments for function", tool_message.func_name,
                                   ConstantArgs(tool_message.args), None_)

\* extract_and_run_tools has returned the empty string for a well-formed
\* call of an unknown tool
C31_Witness ==
    /\ Ran
    /\ UnknownTool
    /\ tool_out.exc = "none"
    /\ tool_out.value = EmptyOutput

(***************************************************************************)
(* Transaction errors and projection errors: C32.                          *)
(***************************************************************************)
\* the messages of the ValueErrors that view raises on a malformed
\* transcript: invalid role, bad first role, bad last role, broken alternation
ProjectionErrors ==
    {"Invalid role in message. Pass in agent to merge messages.",
     "First message must be a system message.",
     "Last message must be a user message.",
     "Incorrect ordering: User message expected.",
     "Incorrect ordering: Assistant message expected."}

\* C32: rollback() and commit() called with no open transaction always raise,
\* and change nothing; what they raise differs from every error view raises:
\* its message is no message of view (the class is ValueError in both, so
\* the message is what tells them apart), and view never raises theirs
C32_TransactionErrorsDistinct ==
    [][/\ (op'.name \in {"rollback", "commit"} /\ history_stack = <<>>) =>
            /\ op'.exc = "ValueError"
            /\ op'.msg = (IF op'.name = "rollback" THEN "No transaction to rollback."
                          ELSE "No transaction to commit.")
            /\ op'.msg \notin ProjectionErrors \cup {"Message history is empty."}
            /\ UNCHANGED <<heap, history, history_stack>>
       /\ (op'.name \in {"rollback", "commit"} /\ history_stack # <<>>) =>
            op'.exc = "none"
       /\ (op'.name = "view" /\ op'.exc # "none") =>
            /\ op'.exc = "ValueError"
            /\ op'.msg \in ProjectionErrors \cup {"Message history is empty."}
            /\ op'.msg \notin {"No transaction to rollback.", "No transaction to commit."}]_vars

\* rollback has raised on a transcript on which view raises too
C32_Witness ==
    /\ op.name = "rollback"
    /\ op.exc = "ValueError"
    /\ op.msg = "No transaction to rollback."
    /\ ViewOf(LiveValues, NoAgent).msg \in ProjectionErrors

\* view has raised each of its structural errors
C32_WitnessOrdering ==
    /\ op.name = "view"
    /\ op.msg = "Incorrect ordering: Assistant message expected."

(***************************************************************************)
(* Stamping a reply with its author: C33.                                  *)
(***************************************************************************)
\* C33: set_last_role rewrites the role of a message at most once, and only
\* of a generated reply: whenever a call of set_last_role succeeds, the
\* message it stamps had the role "assistant" that invoke gave it
C33_StampedOnce ==
    [][(op'.name = "set_last_role" /\ op'.exc = "none" /\ history # <<>>) =>
            LiveValues[Len(history)].role = ASSISTANT]_vars

\* one message has had its role rewritten twice: the snapshot taken between
\* the two calls recorded it as agentA's, and it is agentB's now
C33_Witness ==
    /\ op.name = "set_last_role"
    /\ op.exc = "none"
    /\ history_stack # <<>>
    /\ history # <<>>
    /\ history = history_stack[Len(history_stack)]
    /\ saved[Len(saved)][Len(history)].role = AgentA
    /\ LiveValues[Len(history)].role = AgentB

Probing == {"Observer2", "Mover"}

C35_ObservationLeavesNoTrace ==
    [][(threads[MOTOR].pc = "work" /\ threads[MOTOR].state = "observation"
          /\ threads'[MOTOR].pc = "top") =>
            /\ LiveValues' = LiveValues \o <<Message(ASSISTANT, ReplyOk),
                                             Message(ASSISTANT, ToolResult)>>
            /\ StackValues' = StackValues
            /\ \A i \in 1..Len(history') : LiveValues'[i] # Message(USER, AskPrompt)]_vars

(***************************************************************************)
(* Projections in the router topology: C36.                                *)
(***************************************************************************)
\* C36: in the router topology every projection that an addressed agent
\* requests for its call of the model is returned: no call of view raises,
\* the projection ends with a "user" entry, and the last entry of the
\* history it was made from is not one the requesting agent wrote
C36_ProjectionsPass ==
    /\ op.exc = "none"
    /\ op.name = "view" =>
            /\ view_out.agent \in {MASTERMIND, CRITIC, MOVER}
            /\ view_out.value # <<>>
            /\ view_out.value[Len(view_out.value)].role = USER
            /\ LiveValues[Len(history)].role # view_out.agent

\* the transcript has grown by entries of all three agents' turns and the
\* Mastermind, addressed for the second time, has had its projection returned
C36_Witness ==
    /\ op.name = "view"
    /\ op.exc = "none"
    /\ view_out.agent = MASTERMIND
    /\ threads[MASTERMIND].pc = "work"
    /\ \E i \in 1..Len(history) : LiveValues[i].role = MASTERMIND
    /\ \E i \in 1..Len(history) : LiveValues[i].role = CRITIC

(***************************************************************************)
(* The router after a failed turn: C37.                                    *)
(***************************************************************************)
\* the loop of some agent has ended because its state function raised
Crashed == \E a \in DOMAIN threads : threads[a].pc = "crashed"

\* C37: once the step of the addressed agent has raised, the router is in
\* wait and stays there: no mailbox holds a message and none is sent, so no
\* agent is addressed again; the shared history is not changed again; and
\* every other thread can still poll its mailbox, which is all that happens
C37_RouterStalls ==
    /\ [](Crashed =>
            /\ threads[ROUTER].state = "wait"
            /\ threads[ROUTER].pc = "top"
            /\ \A q \in DOMAIN queues : queues[q].items = <<>>
            /\ Cardinality({a \in DOMAIN threads : threads[a].pc = "crashed"}) = 1
            /\ \A b \in DOMAIN threads :
                    threads[b].pc # "crashed" => ENABLED PollNone(b))
    /\ [][Crashed =>
            /\ UNCHANGED <<heap, history, history_stack, queues>>
            /\ bus_op'.name = "receive_message"
            /\ bus_op'.ret = None_
            /\ threads'[step'.agent].state = threads[step'.agent].state
            /\ threads'[step'.agent].pc = "top"]_vars

\* the request of the addressed agent has failed and the router has polled
\* its mailbox since
C37_Witness ==
    /\ Crashed
    /\ step = [agent |-> ROUTER, state |-> "wait"]
    /\ bus_op.name = "receive_message"
    /\ bus_op.ret = None_

(***************************************************************************)
(* Transactions are closed before the hand-off: C38.                       *)
(***************************************************************************)
\* the agents of the router topology whose step opens a transaction
Probers == {a \in DOMAIN threads : threads[a].cls \in Probing}

StopCalled(a) ==
    \/ main_pc.at \notin {"stop", "unregister"}
    \/ main_pc.i > Position(StopOrder, a)
    \/ main_pc.i = Position(StopOrder, a) /\ main_pc.at = "unregister"

\* C39: an agent whose loop has ended because a state function raised keeps
\* its running flag until stop() clears it and keeps its entries in the maps
\* of the bus until stop() unregisters it; until then a message sent to it
\* is appended to its mailbox, and nothing is ever taken out of that mailbox
C39_CrashedStaysRegistered ==
    /\ [](\A a \in DOMAIN threads :
            threads[a].pc = "crashed" =>
                /\ threads[a].running <=> ~StopCalled(a)
                /\ a \in DOMAIN agent_queues <=> stopped[a] = None_
                /\ a \in DOMAIN agents <=> stopped[a] = None_)
    /\ [][\A a \in DOMAIN threads :
            (threads[a].pc = "crashed" /\ a \in DOMAIN agent_queues) =>
                /\ threads'[a].pc = "crashed"
                /\ a \in DOMAIN agent_queues' =>
                     LET before == queues[agent_queues[a]]
                         after == queues'[agent_queues'[a]]
                     IN /\ after.got = before.got
                        /\ \/ after.items = before.items
                           \/ /\ bus_op'.name = "send_message"
                              /\ bus_op'.arg = a
                              /\ \E m \in {Message(USER, Done), Message(ASSISTANT, ReplyOk)} :
                                    after.items = Append(before.items, m)]_vars

\* the loop of the MotorControlAgent has ended by an exception, stop() has
\* not been called, and a message sent to it since lies in its mailbox
C39_Witness ==
    /\ threads[MOTOR].pc = "crashed"
    /\ threads[MOTOR].running
    /\ MOTOR \in DOMAIN agent_queues
    /\ MOTOR \in DOMAIN agents
    /\ queues[agent_queues[MOTOR]].items = <<Message(USER, Done)>>
    /\ bus_op = BusCall("send_message", "return", MOTOR, None_, NoLog)

(***************************************************************************)
(* A receive that waits on a removed mailbox: C40.                         *)
(***************************************************************************)
\* thread t is inside agent_queue.get on a Queue object that is the mailbox
\* of no name any more
Orphaned(rc, aq, t) ==
    /\ rc[t] # NotReceiving
    /\ \A n \in DOMAIN aq : aq[n] # rc[t][1].q

\* C40: unregister_agent leaves a receive_message that has looked up its
\* mailbox waiting on that Queue object. From then on nothing is put into
\* it: a send to the name is dropped, or goes to the fresh mailbox of a
\* re-registered name. The receive returns what the removed mailbox held,
\* and None at its timeout when it is empty. Every message put into a
\* mailbox is taken out at most once.
C40_ReceiveOnRemovedMailbox ==
    /\ [](\A q \in DOMAIN queues : queues[q].put = queues[q].got \o queues[q].items)
    /\ [][\A t \in DOMAIN receivers :
            /\ (receivers[t] # NotReceiving /\ bus_op'.name = "unregister_agent") =>
                    /\ receivers'[t] = receivers[t]
                    /\ receivers[t][1].q \in DOMAIN queues'
                    /\ queues'[receivers[t][1].q] = queues[receivers[t][1].q]
            /\ Orphaned(receivers, agent_queues, t) =>
                    /\ receivers'[t] # NotReceiving =>
                            /\ Orphaned(receivers', agent_queues', t)
                            /\ receivers'[t] = receivers[t]
                            /\ queues'[receivers[t][1].q].put = queues[receivers[t][1].q].put
                    /\ receivers'[t] = NotReceiving =>
                            /\ bus_op'.name = "receive_message"
                            /\ bus_op'.phase = "return"
                            /\ bus_op'.arg = receivers[t][1].arg
                            /\ bus_op'.ret =
                                  IF queues[receivers[t][1].q].items = <<>> THEN None_
                                  ELSE Some(Head(queues[receivers[t][1].q].items))]_vars

\* a receive for agentA has ended with None at its timeout while the
\* mailbox of agentA holds a message: it waited on the mailbox that was
\* removed before agentA was registered again and sent to
C40_Witness ==
    /\ bus_op = BusCall("receive_message", "return", AgentA, None_, NoLog)
    /\ AgentA \in DOMAIN agent_queues
    /\ queues[agent_queues[AgentA]].items # <<>>
    /\ \A t \in DOMAIN receivers : receivers[t] = NotReceiving

====
